---- MODULE Spec2Model ----
(***************************************************************************)
(* Model of the Wettstar race-card parser (wettstar_horse_scraper.py).     *)
(*                                                                         *)
(* Lines are real strings.  The regular expressions of the source are      *)
(* transcribed node by node into pattern values and matched by a           *)
(* backtracking matcher that returns the successes in Python's priority    *)
(* order, so that the first success is the match `re` reports.             *)
(*                                                                         *)
(* Three specifications share the actions:                                 *)
(*   SpecSplit  split_blocks on any list of up to MaxLines lines;          *)
(*   SpecPage   parse_wettstar_pdf on one page of up to MaxEntrants        *)
(*              entrants;                                                  *)
(*   Spec       parse_wettstar_pdf on a document of up to MaxPages pages.  *)
(* An exception that leaves the parser is the control state "raised".      *)
(***************************************************************************)
EXTENDS Integers, Sequences, FiniteSets, TLC

(***************************************************************************)
(* Character classes of the patterns.                                      *)
(***************************************************************************)
Digit == {"0", "1", "2", "3", "4", "5", "6", "7", "8", "9"}

Space == {" ", "\t", "\n", "\r", "\f"}

AsciiUpper == {"A", "B", "C", "D", "E", "F", "G", "H", "I", "J", "K", "L", "M",
               "N", "O", "P", "Q", "R", "S", "T", "U", "V", "W", "X", "Y", "Z"}

AsciiLower == {"a", "b", "c", "d", "e", "f", "g", "h", "i", "j", "k", "l", "m",
               "n", "o", "p", "q", "r", "s", "t", "u", "v", "w", "x", "y", "z"}

\* [A-Za-z]
AsciiLetter == AsciiUpper \cup AsciiLower

\* [A-ZÄÖÜ]
NameStart == AsciiUpper \cup {"Ä", "Ö", "Ü"}

\* [A-Za-zäöüÄÖÜß\-]
VenueChar == AsciiLetter \cup {"ä", "ö", "ü", "Ä", "Ö", "Ü", "ß", "-"}

\* [A-Za-zäöüÄÖÜß\s'\-]
NameChar == VenueChar \cup Space \cup {"'"}

(***************************************************************************)
(* Pattern values: one constructor per construct of Python's `re` that the *)
(* source uses.                                                            *)
(***************************************************************************)
Lit(x) == [t |-> "lit", s |-> x]
In(c) == [t |-> "set", c |-> c]
NotIn(c) == [t |-> "nset", c |-> c]
Dot == [t |-> "any"]
Bol == [t |-> "bol"]
BolM == [t |-> "bolm"]
Eol == [t |-> "eol"]
Cat(rs) == [t |-> "cat", rs |-> rs]
Alt(a, b) == [t |-> "alt", a |-> a, b |-> b]
Rep(r, lo, hi) == [t |-> "rep", r |-> r, lo |-> lo, hi |-> hi, unbounded |-> FALSE, lazy |-> FALSE]
Star(r) == [t |-> "rep", r |-> r, lo |-> 0, hi |-> 0, unbounded |-> TRUE, lazy |-> FALSE]
Plus(r) == [t |-> "rep", r |-> r, lo |-> 1, hi |-> 1, unbounded |-> TRUE, lazy |-> FALSE]
PlusLazy(r) == [t |-> "rep", r |-> r, lo |-> 1, hi |-> 1, unbounded |-> TRUE, lazy |-> TRUE]
Opt(r) == [t |-> "rep", r |-> r, lo |-> 0, hi |-> 1, unbounded |-> FALSE, lazy |-> FALSE]
Grp(n, r) == [t |-> "grp", n |-> n, r |-> r]
Look(r) == [t |-> "look", r |-> r]

D == In(Digit)
S == In(Space)

(***************************************************************************)
(* The matcher.  A match state is the next position and the spans of the   *)
(* capture groups (<<0, 0>> while a group has not taken part).             *)
(***************************************************************************)
NGroups == 8

Ch(s, p) == IF p >= 1 /\ p <= Len(s) THEN SubSeq(s, p, p) ELSE ""

St0(p) == [p |-> p, g |-> [k \in 1..NGroups |-> <<0, 0>>]]

\* whether the one-character pattern r accepts the character at p
OneChar(r, s, p) ==
    CASE r.t = "set" -> Ch(s, p) \in r.c
      [] r.t = "nset" -> p <= Len(s) /\ Ch(s, p) \notin r.c
      [] r.t = "any" -> p <= Len(s) /\ Ch(s, p) # "\n"
      [] OTHER -> FALSE

IsOneChar(r) == r.t \in {"set", "nset", "any"}

\* the first position of lo..hi that r does not accept, hi + 1 when there is none
\* (halving keeps the evaluation shallow on long lines)
RECURSIVE RunEnd(_, _, _, _)
RunEnd(r, s, lo, hi) ==
    IF lo > hi THEN lo
    ELSE IF lo = hi THEN (IF OneChar(r, s, lo) THEN hi + 1 ELSE lo)
    ELSE LET mid == (lo + hi) \div 2
             l == RunEnd(r, s, lo, mid)
         IN  IF l <= mid THEN l ELSE RunEnd(r, s, mid + 1, hi)

\* record the span of group n, begun at p, in each success of its body
SetGroup(res, n, p) == [k \in 1..Len(res) |-> [res[k] EXCEPT !.g[n] = <<p, res[k].p>>]]

RECURSIVE M(_, _, _)
RECURSIVE MAll(_, _, _, _, _)
RECURSIVE MCat(_, _, _, _)
RECURSIVE MRep(_, _, _, _)

\* every success of r on each of the states sts[lo..hi], in order
MAll(r, s, sts, lo, hi) ==
    IF lo > hi THEN <<>>
    ELSE IF lo = hi THEN M(r, s, sts[lo])
    ELSE LET mid == (lo + hi) \div 2
         IN  MAll(r, s, sts, lo, mid) \o MAll(r, s, sts, mid + 1, hi)

\* the parts rs[k..] one after the other
MCat(rs, k, s, sts) ==
    IF k > Len(rs) \/ Len(sts) = 0 THEN sts
    ELSE MCat(rs, k + 1, s, MAll(rs[k], s, sts, 1, Len(sts)))

\* repetition of a one-character pattern: greedy offers the longest run first,
\* lazy the shortest
\* the states after each admissible number of repetitions, the run ending at e
Runs(r, st, e) ==
    IF e - st.p < r.lo THEN <<>>
    ELSE [k \in 1..(e - st.p - r.lo + 1) |->
            [st EXCEPT !.p = IF r.lazy THEN st.p + r.lo + k - 1 ELSE e - k + 1]]

RepChar(r, s, st) ==
    Runs(r, st, RunEnd(r.r, s, st.p,
                       IF r.unbounded \/ st.p + r.hi - 1 > Len(s)
                       THEN Len(s) ELSE st.p + r.hi - 1))

\* repetition of any other pattern, n repetitions done
MRep(r, s, st, n) ==
    LET nxt == IF r.unbounded \/ n < r.hi THEN M(r.r, s, st) ELSE <<>>
        more == IF Len(nxt) = 0 THEN <<>>
                ELSE LET one == [k \in 1..Len(nxt) |-> MRep(r, s, nxt[k], n + 1)]
                     IN  IF Len(nxt) = 1 THEN one[1] ELSE one[1] \o one[2]
        here == IF n >= r.lo THEN <<st>> ELSE <<>>
    IN  IF r.lazy THEN here \o more ELSE more \o here

M(r, s, st) ==
    CASE r.t = "lit" ->
            IF st.p + Len(r.s) - 1 <= Len(s)
               /\ SubSeq(s, st.p, st.p + Len(r.s) - 1) = r.s
            THEN <<[st EXCEPT !.p = @ + Len(r.s)]>> ELSE <<>>
      [] IsOneChar(r) ->
            IF OneChar(r, s, st.p) THEN <<[st EXCEPT !.p = @ + 1]>> ELSE <<>>
      [] r.t = "bol" -> IF st.p = 1 THEN <<st>> ELSE <<>>
      [] r.t = "bolm" ->
            IF st.p = 1 \/ Ch(s, st.p - 1) = "\n" THEN <<st>> ELSE <<>>
      [] r.t = "eol" ->
            IF st.p = Len(s) + 1 \/ (st.p = Len(s) /\ Ch(s, st.p) = "\n")
            THEN <<st>> ELSE <<>>
      [] r.t = "cat" -> MCat(r.rs, 1, s, <<st>>)
      [] r.t = "alt" -> M(r.a, s, st) \o M(r.b, s, st)
      [] r.t = "rep" ->
            IF IsOneChar(r.r) THEN RepChar(r, s, st) ELSE MRep(r, s, st, 0)
      [] r.t = "grp" -> SetGroup(M(r.r, s, st), r.n, st.p)
      [] r.t = "look" -> IF Len(M(r.r, s, st)) > 0 THEN <<st>> ELSE <<>>

(***************************************************************************)
(* re.match, re.search, finditer and group().                              *)
(***************************************************************************)
NoMatch == [ok |-> FALSE, b |-> 0, e |-> 0, g |-> St0(0).g]

\* the match object of the first success, begun at p
FirstOf(res, p) ==
    IF Len(res) = 0 THEN NoMatch
    ELSE [ok |-> TRUE, b |-> p, e |-> res[1].p, g |-> res[1].g]

MatchAt(r, s, p) == FirstOf(M(r, s, St0(p)), p)

re_match(r, s) == MatchAt(r, s, 1)

\* the match at the leftmost start position of lo..hi that has one
RECURSIVE SearchIn(_, _, _, _)
SearchIn(r, s, lo, hi) ==
    IF lo > hi THEN NoMatch
    ELSE IF lo = hi THEN MatchAt(r, s, lo)
    ELSE LET mid == (lo + hi) \div 2
             l == SearchIn(r, s, lo, mid)
         IN  IF l.ok THEN l ELSE SearchIn(r, s, mid + 1, hi)

SearchFrom(r, s, p) == SearchIn(r, s, p, Len(s) + 1)

re_search(r, s) == SearchFrom(r, s, 1)

RECURSIVE FindFrom(_, _, _)
\* the match m and those that follow it
FindNext(r, s, m) ==
    IF ~m.ok THEN <<>>
    ELSE <<m>> \o FindFrom(r, s, IF m.e > m.b THEN m.e ELSE m.e + 1)

FindFrom(r, s, p) == FindNext(r, s, SearchFrom(r, s, p))

finditer(r, s) == FindFrom(r, s, 1)

\* m.group(k): the text of group k ("" when the group did not take part)
group(s, m, k) ==
    IF m.g[k][1] = 0 THEN "" ELSE SubSeq(s, m.g[k][1], m.g[k][2] - 1)

(***************************************************************************)
(* The patterns of the source.                                             *)
(***************************************************************************)
\* (\d{4}):\s*(\d+)\s+Starts?\s*-\s*(\d+)\s+Sieg[e]?\s*-\s*(\d+)\s+(?:Plätze|Platz)\s*([\d.]+)\s*€
STATS_PAT ==
    Cat(<<Grp(1, Rep(D, 4, 4)), Lit(":"), Star(S), Grp(2, Plus(D)), Plus(S),
          Lit("Start"), Opt(Lit("s")), Star(S), Lit("-"), Star(S),
          Grp(3, Plus(D)), Plus(S), Lit("Sieg"), Opt(In({"e"})), Star(S),
          Lit("-"), Star(S), Grp(4, Plus(D)), Plus(S),
          Alt(Lit("Plätze"), Lit("Platz")), Star(S),
          Grp(5, Plus(In(Digit \cup {"."}))), Star(S), Lit("€")>>)

\* (\d{2}\.\d{2})([A-Za-zäöüÄÖÜß\-]+)\s+(\d{1,2})(\d{2}\.\d+)\s+(\d{3,4})\s+
\* ([\d.]+)\s*([\d,]+)\s+(.+?)(?=\s*\d{2}\.\d{2}[A-Za-z]|\s*$)
FORM_PAT ==
    Cat(<<Grp(1, Cat(<<Rep(D, 2, 2), Lit("."), Rep(D, 2, 2)>>)),
          Grp(2, Plus(In(VenueChar))), Plus(S),
          Grp(3, Rep(D, 1, 2)),
          Grp(4, Cat(<<Rep(D, 2, 2), Lit("."), Plus(D)>>)), Plus(S),
          Grp(5, Rep(D, 3, 4)), Plus(S),
          Grp(6, Plus(In(Digit \cup {"."}))), Star(S),
          Grp(7, Plus(In(Digit \cup {","}))), Plus(S),
          Grp(8, PlusLazy(Dot)),
          Look(Alt(Cat(<<Star(S), Rep(D, 2, 2), Lit("."), Rep(D, 2, 2),
                         In(AsciiLetter)>>),
                   Cat(<<Star(S), Eol>>)))>>)

\* ^(\d{1,2})\s+([A-ZÄÖÜ][A-Za-zäöüÄÖÜß\s'\-]+?)\s+(?:[\d.]+\s*€\s+)?\d{4}:\s*\d+\s+Starts?
PAT_A ==
    Cat(<<Bol, Grp(1, Rep(D, 1, 2)), Plus(S),
          Grp(2, Cat(<<In(NameStart), PlusLazy(In(NameChar))>>)), Plus(S),
          Opt(Cat(<<Plus(In(Digit \cup {"."})), Star(S), Lit("€"), Plus(S)>>)),
          Rep(D, 4, 4), Lit(":"), Star(S), Plus(D), Plus(S),
          Lit("Start"), Opt(Lit("s"))>>)

\* ^([A-ZÄÖÜ][A-Za-zäöüÄÖÜß\s'\-]+)$
PAT_NAME == Cat(<<Bol, Grp(1, Cat(<<In(NameStart), Plus(In(NameChar))>>)), Eol>>)

\* ^(\d{1,2})$
PAT_NR == Cat(<<Bol, Grp(1, Rep(D, 1, 2)), Eol>>)

\* ^\d+j\.
PAT_PED_START == Cat(<<Bol, Plus(D), Lit("j"), Lit(".")>>)

\* ^(\d{1,2})\s+([A-ZÄÖÜ][A-Za-zäöüÄÖÜß\s'\-]+)
PAT_IDENT ==
    Cat(<<Bol, Grp(1, Rep(D, 1, 2)), Plus(S),
          Grp(2, Cat(<<In(NameStart), Plus(In(NameChar))>>))>>)

\* \d{2}\.\d{2}\.\d{4}\s*-\s*([A-Za-zäöüÄÖÜß\-]+)\s+Rennen\s*#\s*(\d+)
PAT_RACE ==
    Cat(<<Rep(D, 2, 2), Lit("."), Rep(D, 2, 2), Lit("."), Rep(D, 4, 4),
          Star(S), Lit("-"), Star(S), Grp(1, Plus(In(VenueChar))), Plus(S),
          Lit("Rennen"), Star(S), Lit("#"), Star(S), Grp(2, Plus(D))>>)

\* (\d{3,4})\s*m
PAT_DIST == Cat(<<Grp(1, Rep(D, 3, 4)), Star(S), Lit("m")>>)

\* ([\d.]+)\s*€
PAT_PRIZE == Cat(<<Grp(1, Plus(In(Digit \cup {"."}))), Star(S), Lit("€")>>)

\* ^\d+\s+\d+\s*m\s*
PAT_NAME_PREFIX == Cat(<<Bol, Plus(D), Plus(S), Plus(D), Star(S), Lit("m"), Star(S)>>)

\* ^(\d{2}\.\d{2})\s+Besitzer:  with re.MULTILINE
PAT_WEIGHT ==
    Cat(<<BolM, Grp(1, Cat(<<Rep(D, 2, 2), Lit("."), Rep(D, 2, 2)>>)), Plus(S),
          Lit("Besitzer:")>>)

\* B\s+M\s+o\s+L
PAT_BML == Cat(<<Lit("B"), Plus(S), Lit("M"), Plus(S), Lit("o"), Plus(S), Lit("L")>>)

\* :\s*(\d+)\s+(\d+)\s*,(\d)\s*(\d*)
PAT_BOX_ML ==
    Cat(<<Lit(":"), Star(S), Grp(1, Plus(D)), Plus(S), Grp(2, Plus(D)), Star(S),
          Lit(","), Grp(3, D), Star(S), Grp(4, Star(D))>>)

\* \w over the characters the inputs are written in: letters, digits, "_"
WordChar == AsciiLetter \cup Digit \cup {"_", "ä", "ö", "ü", "Ä", "Ö", "Ü", "ß"}

\* (\d+)j\.\s+(\w+)\s+([A-Z])\s+\(([^-]+)\s*-\s*([^)]+)\)
PAT_PED ==
    Cat(<<Grp(1, Plus(D)), Lit("j"), Lit("."), Plus(S), Grp(2, Plus(In(WordChar))),
          Plus(S), Grp(3, In(AsciiUpper)), Plus(S), Lit("("),
          Grp(4, Plus(NotIn({"-"}))), Star(S), Lit("-"), Star(S),
          Grp(5, Plus(NotIn({")"}))), Lit(")")>>)

\* rf'{label}:\s*(.+)'
PAT_LABEL(label) == Cat(<<Lit(label \o ":"), Star(S), Grp(1, Plus(Dot))>>)

(***************************************************************************)
(* Python values and the string methods the parser uses.  A value carries  *)
(* its type, so that '' (empty), None and 0 stay distinct.                 *)
(***************************************************************************)
\* (every value has every field, so that values of two types compare unequal)
PyStr(x) == [k |-> "str", s |-> x, n |-> 0, e |-> 0]
PyInt(n) == [k |-> "int", s |-> "", n |-> n, e |-> 0]
PyNone == [k |-> "None", s |-> "", n |-> 0, e |-> 0]
\* a float read from decimal text: n and e stand for n / 10^e, e minimal
PyFloat(m, e) == [k |-> "float", s |-> "", n |-> m, e |-> e]

\* the last position of lo..hi that holds no whitespace, lo - 1 when there is none
RECURSIVE LastInk(_, _, _)
LastInk(s, lo, hi) ==
    IF lo > hi THEN lo - 1
    ELSE IF lo = hi THEN (IF Ch(s, lo) \in Space THEN lo - 1 ELSE lo)
    ELSE LET mid == (lo + hi) \div 2
             r == LastInk(s, mid + 1, hi)
         IN  IF r > mid THEN r
             ELSE LET l == LastInk(s, lo, mid) IN IF l >= lo THEN l ELSE lo - 1

\* str.strip()
strip(s) ==
    LET a == RunEnd(S, s, 1, Len(s))
        b == LastInk(s, 1, Len(s))
    IN  IF a > Len(s) THEN "" ELSE SubSeq(s, a, b)

\* the text of each match of ms in s
Spans(s, ms) == [n \in 1..Len(ms) |-> SubSeq(s, ms[n].b, ms[n].e - 1)]

\* str.split(): the maximal runs of non-whitespace
split(s) == Spans(s, finditer(Plus(NotIn(Space)), s))

\* str.replace(c, ''), c one character
RECURSIVE remove(_, _)
remove(s, c) ==
    IF s = "" THEN ""
    ELSE (IF Ch(s, 1) = c THEN "" ELSE Ch(s, 1)) \o remove(SubSeq(s, 2, Len(s)), c)

DigitVal(c) ==
    CASE c = "0" -> 0 [] c = "1" -> 1 [] c = "2" -> 2 [] c = "3" -> 3
      [] c = "4" -> 4 [] c = "5" -> 5 [] c = "6" -> 6 [] c = "7" -> 7
      [] c = "8" -> 8 [] c = "9" -> 9

\* int(s) of a digit string; int('') raises ValueError
IntRaises(s) == s = ""

RECURSIVE int(_)
int(s) ==
    IF s = "" THEN 0
    ELSE 10 * int(SubSeq(s, 1, Len(s) - 1)) + DigitVal(Ch(s, Len(s)))

RECURSIVE Shorten(_, _)
Shorten(m, e) == IF e > 0 /\ m % 10 = 0 THEN Shorten(m \div 10, e - 1) ELSE <<m, e>>

\* float() of the digits `whole`, a point, the digits `frac`
float(whole, frac) ==
    LET v == Shorten(int(whole \o frac), Len(frac)) IN PyFloat(v[1], v[2])

(***************************************************************************)
(* State: the document and meeting date handed to parse_wettstar_pdf, its  *)
(* position in the page loop, the locals of split_blocks, the position in  *)
(* the block loop, and the list of records it builds and returns.          *)
(***************************************************************************)
VARIABLES
    pages,          \* pdf.pages: the lines of each page's text (<<>>: no text)
    race_date,      \* the meeting date, YYYY-MM-DD
    pc,             \* "page", "split", "starters", "done", "raised"
    pg,             \* index of the page being processed
    lines,          \* lines of the current page
    i,              \* split_blocks: scan index (1-based)
    current,        \* split_blocks: the open block (<<>> while None)
    blocks,         \* split_blocks: the closed blocks; then the page's blocks
    hdr,            \* the race-header fields of the current page
    b,              \* index of the block parse_starter is called on next
    all_starters,   \* the records collected so far
    result,         \* what the caller receives: the list, or nothing on a raise
    \* the results scrapers (wettstar_results_scraper.run, run_scraper)
    prog,           \* which of the two runs: "run" or "run_scraper"
    site,           \* what the website serves for each race id
    cp_file,        \* scraped_ids.json: the ids it holds ({}: no file, or [])
    written,        \* the contents written to scraped_ids.json, in order
    done_ids,       \* run: done_ids, run_scraper: scraped_ids
    race_ids,       \* the race ids of the run
    todo,           \* the ids left to scrape
    idx,            \* the loop's i (enumerate from 1)
    new_done,       \* run: new_done, run_scraper: new_scraped
    all_results,    \* the rows collected (one per race with rows)
    run_stats,      \* run: stats, the counters ok, no_result, no_starter
    errors,         \* run_scraper: the ids whose scrape raised
    fetched,        \* the race pages requested so far, in order
    html,           \* what the request of this iteration gave
    rpc,            \* "start", "ids", "loop", "fetched", "closing", "saved", "aborted"
    \* the calendar scan of wettstar_results_scraper.run
    from_date,      \* args.from_date
    to_date,        \* args.to_date ("": not given), then to_date
    today_is,       \* datetime.today() as YYYY-MM-DD
    calendar,       \* which calendar the website serves
    current_day,    \* current, as the day's ordinal
    end_day,        \* end, as the day's ordinal
    scanned,        \* the days whose calendar page was read
    de_meetings,    \* what the meeting pages of the day give, one entry each
    day_race_ids,   \* the ids found on the day's meeting pages
    cal_log,        \* the days whose calendar page was requested, in order
    spc             \* "idle", "args", "day", "meetings", "collected", "raised"

horse_vars == <<pages, race_date, pc, pg, lines, i, current, blocks, hdr, b,
                all_starters, result>>

run_vars == <<prog, site, cp_file, written, done_ids, todo, idx, new_done,
              all_results, run_stats, errors, fetched, html, rpc>>

scan_vars ==
    <<from_date, to_date, today_is, calendar, current_day, end_day, scanned,
      de_meetings, day_race_ids, cal_log, spc>>

vars == <<horse_vars, run_vars, race_ids, scan_vars>>

(***************************************************************************)
(* split_blocks                                                            *)
(***************************************************************************)
\* PAT_A.match(line)
ShapeA(line) == re_match(PAT_A, line).ok

\* PAT_NAME on ls[k], PAT_NR on the next line, ^\d+j\. on the one after
ShapeB(ls, k) ==
    /\ re_match(PAT_NAME, ls[k]).ok
    /\ k + 1 <= Len(ls) /\ re_match(PAT_NR, ls[k + 1]).ok
    /\ k + 2 <= Len(ls) /\ re_match(PAT_PED_START, ls[k + 2]).ok

\* if current: blocks.append(current)
CloseCurrent(bl, cur) == IF cur # <<>> THEN Append(bl, cur) ELSE bl

\* the append without its guard
AppendLine_Unguarded(cur, line) == Append(cur, line)

\* if current: current.append(line)
AppendLine(cur, line) == IF cur # <<>> THEN Append(cur, line) ELSE cur

\* the two parts the other way round
SynthHeader_NameFirst(nr_line, name_line) == strip(name_line) \o " " \o strip(nr_line)

\* f"{lines[i+1].strip()} {line.strip()}"
SynthHeader(nr_line, name_line) == strip(nr_line) \o " " \o strip(name_line)

SplitA ==
    /\ pc = "split" /\ i <= Len(lines)
    /\ ShapeA(lines[i])
    /\ blocks' = CloseCurrent(blocks, current)
    /\ current' = <<lines[i]>>
    /\ i' = i + 1
    /\ UNCHANGED <<pages, race_date, pc, pg, lines, hdr, b, all_starters, result,
                   run_vars, race_ids, scan_vars>>

SplitB ==
    /\ pc = "split" /\ i <= Len(lines)
    /\ ~ShapeA(lines[i])
    /\ ShapeB(lines, i)
    /\ blocks' = CloseCurrent(blocks, current)
    /\ current' = <<SynthHeader(lines[i + 1], lines[i]), lines[i + 2]>>
    /\ i' = i + 3
    /\ UNCHANGED <<pages, race_date, pc, pg, lines, hdr, b, all_starters, result,
                   run_vars, race_ids, scan_vars>>

SplitOther ==
    /\ pc = "split" /\ i <= Len(lines)
    /\ ~ShapeA(lines[i])
    /\ ~ShapeB(lines, i)
    /\ current' = AppendLine(current, lines[i])
    /\ i' = i + 1
    /\ UNCHANGED <<pages, race_date, pc, pg, lines, blocks, hdr, b, all_starters, result,
                   run_vars, race_ids, scan_vars>>

\* the return without the final close of the open block
SplitEnd_DropsOpenBlock ==
    /\ pc = "split" /\ i > Len(lines)
    /\ pc' = "starters"
    /\ b' = 1
    /\ UNCHANGED <<pages, race_date, pg, lines, i, current, blocks, hdr, all_starters, result,
                   run_vars, race_ids, scan_vars>>

\* the loop is over: the open block is closed and the blocks are returned to
\* the block loop of parse_wettstar_pdf
SplitEnd ==
    /\ pc = "split" /\ i > Len(lines)
    /\ blocks' = CloseCurrent(blocks, current)
    /\ pc' = "starters"
    /\ b' = 1
    /\ UNCHANGED <<pages, race_date, pg, lines, i, current, hdr, all_starters, result,
                   run_vars, race_ids, scan_vars>>

(***************************************************************************)
(* parse_starter                                                           *)
(***************************************************************************)
\* the first three tokens in place of the first two
FirstTwo_UpToThree(tokens) ==
    IF Len(tokens) >= 3 THEN tokens[1] \o " " \o tokens[2] \o " " \o tokens[3]
    ELSE IF Len(tokens) >= 2 THEN tokens[1] \o " " \o tokens[2]
    ELSE IF Len(tokens) >= 1 THEN tokens[1] ELSE ""

\* jockey_from_rest: the first two whitespace-separated tokens of the rest
\* f"{tokens[0]} {tokens[1]}" if len(tokens) >= 2 else tokens[0] if tokens else ''
FirstTwo(tokens) ==
    IF Len(tokens) >= 2 THEN tokens[1] \o " " \o tokens[2]
    ELSE IF Len(tokens) >= 1 THEN tokens[1] ELSE ""

jockey_from_rest(rest) == FirstTwo(split(strip(rest)))

\* pf: float(str(s).replace(',', '.')), None when float() raises.  Called on
\* the odds capture, which holds digits and commas only: the text is a float
\* when it has at most one separator and at least one digit.
pf(s) ==
    LET commas == {q \in 1..Len(s) : Ch(s, q) = ","}
    IN  IF Cardinality(commas) > 1 \/ remove(s, ",") = "" THEN PyNone
        ELSE IF commas = {} THEN float(s, "")
        ELSE LET q == CHOOSE q \in commas : TRUE
             IN  float(SubSeq(s, 1, q - 1), SubSeq(s, q + 1, Len(s)))

\* race_date[8:10] + '.' + race_date[5:7]
TodayOf(date) == SubSeq(date, 9, 10) \o "." \o SubSeq(date, 6, 7)

REF_YEARS == {2025, 2024}

\* a loop that books the occurrence of any other year under 2025
RECURSIVE StatsLoop_AnyYear(_, _, _, _)
StatsLoop_AnyYear(line0, sms, n, stats) ==
    IF n > Len(sms) THEN [raised |-> FALSE, stats |-> stats]
    ELSE IF IntRaises(remove(group(line0, sms[n], 5), "."))
         THEN [raised |-> TRUE, stats |-> stats]
    ELSE StatsLoop_AnyYear(line0, sms, n + 1,
             [stats EXCEPT ![IF int(group(line0, sms[n], 1)) \in REF_YEARS
                             THEN int(group(line0, sms[n], 1)) ELSE 2025] =
                  <<int(group(line0, sms[n], 2)), int(group(line0, sms[n], 3)),
                    int(group(line0, sms[n], 4)),
                    int(remove(group(line0, sms[n], 5), "."))>>])

\* for sm in STATS_PAT.finditer(line0): only a reference year converts its
\* captures; int() of a prize capture without a digit raises
RECURSIVE StatsLoop(_, _, _, _)
StatsLoop(line0, sms, n, stats) ==
    IF n > Len(sms) THEN [raised |-> FALSE, stats |-> stats]
    ELSE LET sm == sms[n]
             y == int(group(line0, sm, 1))
             prize == remove(group(line0, sm, 5), ".")
         IN  IF y \in REF_YEARS
             THEN IF IntRaises(prize) THEN [raised |-> TRUE, stats |-> stats]
                  ELSE StatsLoop(line0, sms, n + 1,
                           [stats EXCEPT ![y] = <<int(group(line0, sm, 2)),
                                                  int(group(line0, sm, 3)),
                                                  int(group(line0, sm, 4)),
                                                  int(prize)>>])
             ELSE StatsLoop(line0, sms, n + 1, stats)

FORM_KEYS == {"date", "venue", "place", "weight", "distance", "prize", "odds", "jockey"}

\* the dict appended to all_form for the match fm of FORM_PAT on line
\* float() of a capture of the form dd.d+
FloatOf(s) == float(SubSeq(s, 1, 2), SubSeq(s, 4, Len(s)))

FormEntry(line, fm, jockey) ==
    [date |-> PyStr(group(line, fm, 1)),
     venue |-> PyStr(group(line, fm, 2)),
     place |-> PyInt(int(group(line, fm, 3))),
     weight |-> FloatOf(group(line, fm, 4)),
     distance |-> PyInt(int(group(line, fm, 5))),
     prize |-> PyInt(int(remove(group(line, fm, 6), "."))),
     odds |-> pf(group(line, fm, 7)),
     jockey |-> PyStr(jockey)]

\* if len(all_form) < 5
FORM_LIMIT == 5

\* the body of `for fm in FORM_PAT.finditer(line)` for one match: a match dated
\* today sets today_jockey and is skipped; any other is appended while fewer
\* than five are kept (its prize conversion may raise)
\* a step that lets a later entry push out the oldest kept one
FormStepWith_Displaces(line, fm, today, acc, date_str, jockey) ==
    IF date_str = today THEN [acc EXCEPT !.today_jockey = jockey]
    ELSE IF IntRaises(remove(group(line, fm, 6), ".")) THEN [acc EXCEPT !.raised = TRUE]
    ELSE IF Len(acc.all_form) < FORM_LIMIT
         THEN [acc EXCEPT !.all_form = Append(@, FormEntry(line, fm, jockey))]
         ELSE [acc EXCEPT !.all_form = Append(Tail(@), FormEntry(line, fm, jockey))]

\* a step without the comparison with today's date
FormStepWith_KeepsToday(line, fm, today, acc, date_str, jockey) ==
    IF Len(acc.all_form) < FORM_LIMIT
    THEN IF IntRaises(remove(group(line, fm, 6), "."))
         THEN [acc EXCEPT !.raised = TRUE]
         ELSE [acc EXCEPT !.all_form = Append(@, FormEntry(line, fm, jockey))]
    ELSE acc

\* a step that looks at no entry once five are kept
FormStepWith_StopsAtFive(line, fm, today, acc, date_str, jockey) ==
    IF Len(acc.all_form) >= FORM_LIMIT THEN acc
    ELSE IF date_str = today THEN [acc EXCEPT !.today_jockey = jockey]
    ELSE IF IntRaises(remove(group(line, fm, 6), ".")) THEN [acc EXCEPT !.raised = TRUE]
    ELSE [acc EXCEPT !.all_form = Append(@, FormEntry(line, fm, jockey))]
FormStepWith(line, fm, today, acc, date_str, jockey) ==
    IF date_str = today THEN [acc EXCEPT !.today_jockey = jockey]
    ELSE IF Len(acc.all_form) < FORM_LIMIT
         THEN IF IntRaises(remove(group(line, fm, 6), "."))
              THEN [acc EXCEPT !.raised = TRUE]
              ELSE [acc EXCEPT !.all_form = Append(@, FormEntry(line, fm, jockey))]
         ELSE acc

FormStep(line, fm, today, acc) ==
    FormStepWith(line, fm, today, acc,
                 group(line, fm, 1), jockey_from_rest(group(line, fm, 8)))

RECURSIVE FormLine(_, _, _, _, _)
FormLine(line, fms, n, today, acc) ==
    IF n > Len(fms) \/ acc.raised THEN acc
    ELSE FormLine(line, fms, n + 1, today, FormStep(line, fms[n], today, acc))

\* for line in lines[1:]
RECURSIVE FormLoop(_, _, _, _)
FormLoop(ls, n, today, acc) ==
    IF n > Len(ls) \/ acc.raised THEN acc
    ELSE FormLoop(ls, n + 1, today,
                  FormLine(ls[n], finditer(FORM_PAT, ls[n]), 1, today, acc))

EmptyEntry == [k \in FORM_KEYS |-> PyStr("")]

\* for i in range(5)
SLOTS == 5

\* the entries put into the last slots instead of the first
SlotSource_RightAligned(all_form, n) ==
    IF n > SLOTS - Len(all_form) THEN all_form[n - (SLOTS - Len(all_form))] ELSE EmptyEntry

\* r = all_form[i] if i < len(all_form) else {}; r.get(k, '')
SlotSource(all_form, n) == IF n <= Len(all_form) THEN all_form[n] ELSE EmptyEntry

NumStr == <<"1", "2", "3", "4", "5", "6", "7", "8", "9">>

\* f'r{i+1}_{k}'
SlotKey(n, k) == "r" \o NumStr[n] \o "_" \o k

\* s[f'{px}_{k}'] = r.get(k, '') for the five slots and the eight keys
SlotFields(all_form) ==
    LET keys == {SlotKey(n, k) : n \in 1..SLOTS, k \in FORM_KEYS}
    IN  [key \in keys |->
            LET n == CHOOSE n \in 1..SLOTS : \E k \in FORM_KEYS : SlotKey(n, k) = key
                k == CHOOSE k \in FORM_KEYS : SlotKey(n, k) = key
            IN  SlotSource(all_form, n)[k]]

RECURSIVE Pow10(_)
Pow10(k) == IF k = 0 THEN 1 ELSE 10 * Pow10(k - 1)

\* ties go to the even neighbour
HalfEven(q, tie) == IF tie /\ q % 2 = 1 THEN q - 1 ELSE q

FloatFrom(v) == PyFloat(v[1], v[2])

\* round(n / d, k) for integers n and d > 0: the nearest multiple of 10^-k.
\* Python rounds the double nearest to n / d; the two agree except when n / d
\* is a tie at k decimals that no double holds exactly, which needs a
\* denominator with a factor 2^(k+1) and does not occur for the inputs below.
round(n, d, k) ==
    FloatFrom(Shorten(HalfEven((2 * n * Pow10(k) + d) \div (2 * d),
                               (2 * n * Pow10(k) + d) % (2 * d) = 0), k))

\* a ratio that is None when the denominator is 0
Pct_NoneWhenZero(n, d, k) == IF d # 0 THEN round(n, d, k) ELSE PyNone

\* round(n / d, k) if d else 0
Pct(n, d, k) == IF d # 0 THEN round(n, d, k) ELSE PyInt(0)

\* the per-year statistics, their totals and ratios
StatsFields(stats) ==
    [starts_2025 |-> PyInt(stats[2025][1]), wins_2025 |-> PyInt(stats[2025][2]),
     places_2025 |-> PyInt(stats[2025][3]), prize_2025 |-> PyInt(stats[2025][4]),
     starts_2024 |-> PyInt(stats[2024][1]), wins_2024 |-> PyInt(stats[2024][2]),
     places_2024 |-> PyInt(stats[2024][3]), prize_2024 |-> PyInt(stats[2024][4]),
     total_starts |-> PyInt(stats[2025][1] + stats[2024][1]),
     win_pct_2025 |-> Pct(stats[2025][2], stats[2025][1], 4),
     place_pct_2025 |-> Pct(stats[2025][3], stats[2025][1], 4),
     win_pct_2024 |-> Pct(stats[2024][2], stats[2024][1], 4),
     place_pct_2024 |-> Pct(stats[2024][3], stats[2024][1], 4),
     total_wins |-> PyInt(stats[2025][2] + stats[2024][2]),
     career_win_pct |-> Pct(stats[2025][2] + stats[2024][2],
                            stats[2025][1] + stats[2024][1], 4),
     career_roi_approx |-> Pct(stats[2025][4] + stats[2024][4],
                               stats[2025][1] + stats[2024][1], 2)]

\* the jockey taken from the history alone
JockeyOf_HistoryOnly(fo) ==
    IF fo.all_form # <<>> THEN fo.all_form[1].jockey ELSE PyStr("")

\* the fallback taken from the last kept entry instead of the first
JockeyOf_LastKept(fo) ==
    IF fo.today_jockey # "" THEN PyStr(fo.today_jockey)
    ELSE IF fo.all_form # <<>> THEN fo.all_form[Len(fo.all_form)].jockey
    ELSE PyStr("")

\* jockey = today_jockey or (all_form[0].get('jockey', '') if all_form else '')
JockeyOf(fo) ==
    IF fo.today_jockey # "" THEN PyStr(fo.today_jockey)
    ELSE IF fo.all_form # <<>> THEN fo.all_form[1].jockey
    ELSE PyStr("")

\* datetime: a year is leap when divisible by 4 and not by 100, or by 400
IsLeap(y) == y % 4 = 0 /\ (y % 100 # 0 \/ y % 400 = 0)

DaysInMonth(y, mo) ==
    IF mo = 2 THEN (IF IsLeap(y) THEN 29 ELSE 28)
    ELSE IF mo \in {4, 6, 9, 11} THEN 30 ELSE 31

\* datetime(y, mo, d) raises ValueError unless month and day are in range
ValidDate(y, mo, d) == y >= 1 /\ mo \in 1..12 /\ d >= 1 /\ d <= DaysInMonth(y, mo)

\* the days before the first of month mo in a year that is not leap
DAYS_BEFORE_MONTH == <<0, 31, 59, 90, 120, 151, 181, 212, 243, 273, 304, 334>>

\* datetime.toordinal: the day number of a valid date, 0001-01-01 being day 1
Ordinal(y, mo, d) ==
    365 * (y - 1) + (y - 1) \div 4 - (y - 1) \div 100 + (y - 1) \div 400
    + DAYS_BEFORE_MONTH[mo] + (IF mo > 2 /\ IsLeap(y) THEN 1 ELSE 0) + d

\* the try block of calc_days once the meeting date (y, mo, d) and the entry's
\* dd and mm are read: the entry's year is the meeting's when mm <= mt.month,
\* else the year before; an invalid date raises and gives ''
DaysBetween_YearOfMeeting(y, mo, d, dd, mm) ==
    IF ~ValidDate(y, mo, d) \/ ~ValidDate(y, mm, dd) THEN PyStr("")
    ELSE PyInt(Ordinal(y, mo, d) - Ordinal(y, mm, dd))

DaysBetween(y, mo, d, dd, mm) ==
    IF ~ValidDate(y, mo, d) \/ ~ValidDate(IF mm <= mo THEN y ELSE y - 1, mm, dd)
    THEN PyStr("")
    ELSE PyInt(Ordinal(y, mo, d) - Ordinal(IF mm <= mo THEN y ELSE y - 1, mm, dd))

\* calc_days(last_str, meeting_str); last_str is None or a date capture of
\* FORM_PAT (two digits, a dot, two digits), meeting_str is YYYY-MM-DD
calc_days(last_str, meeting_str) ==
    IF last_str = PyNone \/ last_str = PyStr("") \/ meeting_str = "" THEN PyStr("")
    ELSE DaysBetween(int(SubSeq(meeting_str, 1, 4)), int(SubSeq(meeting_str, 6, 7)),
                     int(SubSeq(meeting_str, 9, 10)),
                     int(SubSeq(last_str.s, 1, 2)), int(SubSeq(last_str.s, 4, 5)))

\* r['place'] < 20
PLACE_LIMIT == 20

\* every retained place counted, whatever its value
PlaceCounts_All(r) == r.place # PyStr("")

\* r.get('place', '') != '' and r['place'] < 20
PlaceCounts(r) == r.place # PyStr("") /\ r.place.n < PLACE_LIMIT

RECURSIVE SumPlaces(_)
SumPlaces(rs) == IF rs = <<>> THEN 0 ELSE Head(rs).place.n + SumPlaces(Tail(rs))

\* round(sum(vp) / len(vp), 2) if vp else ''
AvgPlace(vp) == IF vp = <<>> THEN PyStr("") ELSE round(SumPlaces(vp), Len(vp), 2)

\* the first token taken in place of the last
LastOf_First(tokens) == tokens[1]

\* tokens[-1]
LastOf(tokens) == tokens[Len(tokens)]

\* x.split()[-1] if x else ''
LastToken(x) == IF x = "" THEN "" ELSE LastOf(split(x))

\* (0 if main_last == r1_last else 1) if (main_last and r1_last) else ''
ChangeOf(main_last, r1_last) ==
    IF main_last # "" /\ r1_last # ""
    THEN PyInt(IF main_last = r1_last THEN 0 ELSE 1)
    ELSE PyStr("")

RECURSIVE Join(_)
\* '\n'.join(lines)
Join(ls) ==
    IF ls = <<>> THEN ""
    ELSE IF Len(ls) = 1 THEN ls[1] ELSE ls[1] \o "\n" \o Join(Tail(ls))

\* float(wm.group(1)) if wm else None
WeightOf(full, wm) ==
    IF wm.ok THEN float(SubSeq(group(full, wm, 1), 1, 2), SubSeq(group(full, wm, 1), 4, 5))
    ELSE PyNone

\* a fragment of "0" taken for no fragment
BoxOf_ZeroIsAbsent(primary, fragment) ==
    IF fragment # "" /\ int(fragment) # 0
    THEN PyInt(int(primary \o fragment)) ELSE PyInt(int(primary))

\* int(m.group(2) + m.group(4)) if m.group(4) else int(m.group(2))
BoxOf(primary, fragment) ==
    IF fragment # "" THEN PyInt(int(primary \o fragment)) ELSE PyInt(int(primary))

\* zeros in place of None when the line does not match
BoxMlOf_ZeroWhenNoMatch(line, m) ==
    IF ~m.ok THEN [ml_odds |-> PyFloat(0, 0), box_nr |-> PyInt(0)]
    ELSE [ml_odds |-> float(group(line, m, 1), group(line, m, 3)),
          box_nr |-> BoxOf(group(line, m, 2), group(line, m, 4))]

\* parse_box_ml once the search m on the line is done
BoxMlOf(line, m) ==
    IF ~m.ok THEN [ml_odds |-> PyNone, box_nr |-> PyNone]
    ELSE [ml_odds |-> float(group(line, m, 1), group(line, m, 3)),
          box_nr |-> BoxOf(group(line, m, 2), group(line, m, 4))]

\* parse_box_ml(line): (ml, box), (None, None) when the layout does not match
parse_box_ml(line) == BoxMlOf(line, re_search(PAT_BOX_ML, line))

RECURSIVE BmlLine(_, _)
\* next((l for l in lines if re.search(r'B\s+M\s+o\s+L', l)), '')
BmlLine(ls, n) ==
    IF n > Len(ls) THEN ""
    ELSE IF re_search(PAT_BML, ls[n]).ok THEN ls[n] ELSE BmlLine(ls, n + 1)

RECURSIVE PedLine(_, _)
\* next((l for l in lines[1:4] if re.match(r'\d+j\.', l)), '')
PedLine(ls, n) ==
    IF n > Len(ls) \/ n > 4 THEN ""
    ELSE IF re_match(PAT_PED_START, ls[n]).ok THEN ls[n] ELSE PedLine(ls, n + 1)

\* the update gives no 'dam' when the pattern did not match
PedFields_NoDamWhenNoMatch(bl_src, bl) ==
    IF bl.ok
    THEN [age |-> PyInt(int(group(bl_src, bl, 1))),
          color |-> PyStr(group(bl_src, bl, 2)),
          gender |-> PyStr(group(bl_src, bl, 3)),
          sire |-> PyStr(strip(group(bl_src, bl, 4))),
          dam |-> PyStr(strip(group(bl_src, bl, 5)))]
    ELSE [age |-> PyStr(""), color |-> PyStr(""), gender |-> PyStr(""),
          sire |-> PyStr("")]

\* the five pedigree fields once the match bl on bl_src is done
PedFields(bl_src, bl) ==
    IF bl.ok
    THEN [age |-> PyInt(int(group(bl_src, bl, 1))),
          color |-> PyStr(group(bl_src, bl, 2)),
          gender |-> PyStr(group(bl_src, bl, 3)),
          sire |-> PyStr(strip(group(bl_src, bl, 4))),
          dam |-> PyStr(strip(group(bl_src, bl, 5)))]
    ELSE [age |-> PyStr(""), color |-> PyStr(""), gender |-> PyStr(""),
          sire |-> PyStr(""), dam |-> PyStr("")]

\* bl = re.match(<pedigree>, bl_src) and the s.update that follows
Pedigree(bl_src) == PedFields(bl_src, re_match(PAT_PED, bl_src))

\* m.group(1).strip() if m else ''
EfOf(text, m) == IF m.ok THEN PyStr(strip(group(text, m, 1))) ELSE PyStr("")

\* ef(text, label)
ef(text, label) == EfOf(text, re_search(PAT_LABEL(label), text))

\* the fields read from the block's text as a whole: pedigree, trainer, owner,
\* breeder, declared weight, odds and box
BlockFields(ls, full) ==
    Pedigree(PedLine(ls, 2))
    @@ [trainer |-> ef(full, "Trainer"), owner |-> ef(full, "Besitzer"),
        breeder |-> ef(full, "Züchter"),
        weight_kg |-> WeightOf(full, re_search(PAT_WEIGHT, full))]
    @@ parse_box_ml(BmlLine(ls, 1))

\* distance_m - all_form[0]['distance'] if all_form else ''
DistanceDiff(distance_m, all_form) ==
    IF all_form # <<>> THEN PyInt(distance_m.n - all_form[1].distance.n) ELSE PyStr("")

Max(x, y) == IF x > y THEN x ELSE y

\* round(x - y, 1) for the floats x and y, both brought to e decimals.  The difference of the doubles is taken for the
\* difference of the decimals: the two differ only at a tie (a five in the
\* second decimal of the difference).
RoundedDiff(x, y, e) ==
    round(x.n * Pow10(e - x.e) - y.n * Pow10(e - y.e), Pow10(e), 1)

\* round(s['weight_kg'] - all_form[0]['weight'], 1)
\*     if s.get('weight_kg') and all_form else ''
\* (None and 0.0 both fail the test)
WeightDiff(weight_kg, all_form) ==
    IF weight_kg = PyNone \/ all_form = <<>> THEN PyStr("")
    ELSE IF weight_kg.n = 0 THEN PyStr("")
    ELSE RoundedDiff(weight_kg, all_form[1].weight, Max(weight_kg.e, all_form[1].weight.e))

\* 1 if any(r.get('venue') == venue for r in all_form) else 0
VenueRepeat(venue, all_form) ==
    IF \E k \in 1..Len(all_form) : all_form[k].venue = venue THEN PyInt(1) ELSE PyInt(0)

\* f"{s['trainer']}|{s['jockey']}"
Combo(trainer, jockey) == PyStr(trainer.s \o "|" \o jockey.s)

\* the features derived from the form history
FeatureFields(h, date, all_form, jockey, weight_kg) ==
    [days_since_last_run |->
         calc_days(IF all_form # <<>> THEN all_form[1].date ELSE PyNone, date),
     avg_place_last5 |-> AvgPlace(SelectSeq(all_form, PlaceCounts)),
     distance_diff_m |-> DistanceDiff(h.distance_m, all_form),
     weight_diff_kg |-> WeightDiff(weight_kg, all_form),
     venue_repeat |-> VenueRepeat(h.venue, all_form),
     jockey_change |-> ChangeOf(LastToken(jockey.s),
                                LastToken(SlotSource(all_form, 1).jockey.s))]

\* FIELDNAMES: the columns of the CSV, in order
FIELDNAMES ==
    <<"meeting_date", "venue", "race_nr", "race_time", "race_name", "distance_m",
      "prize_eur", "surface", "field_size",
      "start_nr", "horse_name", "age", "gender", "color", "sire", "dam", "trainer",
      "owner", "breeder", "jockey",
      "weight_kg", "box_nr", "ml_odds",
      "starts_2025", "wins_2025", "places_2025", "prize_2025", "win_pct_2025",
      "place_pct_2025",
      "starts_2024", "wins_2024", "places_2024", "prize_2024", "win_pct_2024",
      "place_pct_2024",
      "total_starts", "total_wins", "career_win_pct", "career_roi_approx",
      "r1_date", "r1_venue", "r1_place", "r1_weight", "r1_distance", "r1_prize",
      "r1_odds", "r1_jockey",
      "r2_date", "r2_venue", "r2_place", "r2_weight", "r2_distance", "r2_prize",
      "r2_odds", "r2_jockey",
      "r3_date", "r3_venue", "r3_place", "r3_weight", "r3_distance", "r3_prize",
      "r3_odds", "r3_jockey",
      "r4_date", "r4_venue", "r4_place", "r4_weight", "r4_distance", "r4_prize",
      "r4_odds", "r4_jockey",
      "r5_date", "r5_venue", "r5_place", "r5_weight", "r5_distance", "r5_prize",
      "r5_odds", "r5_jockey",
      "days_since_last_run", "avg_place_last5", "distance_diff_m", "weight_diff_kg",
      "venue_repeat", "jockey_change", "trainer_jockey_combo">>

\* the start number cut to its last digit
StartNr_LastDigit(line0, m) == PyInt(int(group(line0, m, 1)) % 10)

\* s['start_nr'] = int(m.group(1))
StartNr(line0, m) == PyInt(int(group(line0, m, 1)))

\* The outcome of parse_starter once the identity match m, the statistics st
\* and the form history fo of the block are known: None when the identity
\* pattern failed, an exception when a prize conversion raised, else the record.
\* h holds the race-header arguments venue .. surface.
StarterOutcome(line0, h, field_size, date, m, st, fo, bf) ==
    IF ~m.ok THEN [kind |-> "None", s |-> <<>>]
    ELSE IF st.raised \/ fo.raised THEN [kind |-> "raise", s |-> <<>>]
    ELSE [kind |-> "record",
          s |-> [meeting_date |-> PyStr(date), venue |-> h.venue,
                 race_nr |-> h.race_nr, race_time |-> h.race_time,
                 race_name |-> h.race_name, distance_m |-> h.distance_m,
                 prize_eur |-> h.prize_eur, surface |-> h.surface,
                 field_size |-> field_size,
                 start_nr |-> StartNr(line0, m),
                 horse_name |-> PyStr(strip(group(line0, m, 2))),
                 jockey |-> JockeyOf(fo),
                 trainer_jockey_combo |-> Combo(bf.trainer, JockeyOf(fo))]
                @@ StatsFields(st.stats) @@ SlotFields(fo.all_form)
                @@ bf @@ FeatureFields(h, date, fo.all_form, JockeyOf(fo), bf.weight_kg)]

\* parse_starter(lines, venue, race_nr, race_time, race_name, distance_m,
\* prize_eur, surface, field_size, race_date)
parse_starter(ls, h, field_size, date) ==
    StarterOutcome(ls[1], h, field_size, date,
                   re_match(PAT_IDENT, ls[1]),
                   StatsLoop(ls[1], finditer(STATS_PAT, ls[1]), 1,
                             [y \in REF_YEARS |-> <<0, 0, 0, 0>>]),
                   FormLoop(ls, 2, TodayOf(date),
                            [all_form |-> <<>>, today_jockey |-> "", raised |-> FALSE]),
                   BlockFields(ls, Join(ls)))

(***************************************************************************)
(* parse_wettstar_pdf                                                      *)
(***************************************************************************)
\* lines[n] if len(lines) > n else '' (n counted from 0)
LineOr(ls, n) == IF Len(ls) > n THEN ls[n + 1] ELSE ""

\* re.sub(r'^\d+\s+\d+\s*m\s*', '', line): the prefix is cut when it matches
CutNamePrefix(line) ==
    LET m == re_match(PAT_NAME_PREFIX, line)
    IN  IF m.ok THEN SubSeq(line, m.e, Len(line)) ELSE line

\* int(prize_m.group(1).replace('.', '')) raises when the capture has no digit
HeaderRaises(ls) ==
    LET prize_m == re_search(PAT_PRIZE, LineOr(ls, 2))
    IN  prize_m.ok /\ IntRaises(remove(group(LineOr(ls, 2), prize_m, 1), "."))

\* the race-header fields of a page whose first line matched
HeaderFields(ls) ==
    LET hm == re_match(PAT_RACE, ls[1])
        dist_m == re_search(PAT_DIST, LineOr(ls, 1))
        prize_m == re_search(PAT_PRIZE, LineOr(ls, 2))
    IN  [venue |-> PyStr(strip(group(ls[1], hm, 1))),
         race_nr |-> PyInt(int(group(ls[1], hm, 2))),
         surface |-> PyStr(IF Len(ls) > 4 THEN strip(ls[5]) ELSE "Flach"),
         race_time |-> PyStr(IF Len(ls) > 5 THEN strip(ls[6]) ELSE ""),
         race_name |-> PyStr(IF Len(ls) > 1 THEN strip(CutNamePrefix(ls[2])) ELSE ""),
         distance_m |-> PyInt(IF dist_m.ok THEN int(group(LineOr(ls, 1), dist_m, 1)) ELSE 0),
         prize_eur |-> PyInt(IF prize_m.ok
                             THEN int(remove(group(LineOr(ls, 2), prize_m, 1), "."))
                             ELSE 0)]

\* if not text: continue
PageNoText ==
    /\ pc = "page" /\ pg <= Len(pages)
    /\ pages[pg] = <<>>
    /\ pg' = pg + 1
    /\ UNCHANGED <<pages, race_date, pc, lines, i, current, blocks, hdr, b,
                   all_starters, result,
                   run_vars, race_ids, scan_vars>>

\* a break in place of the continue: the first such page ends the document
PageRejected_Breaks ==
    /\ pc = "page" /\ pg <= Len(pages)
    /\ pages[pg] # <<>>
    /\ ~re_match(PAT_RACE, pages[pg][1]).ok
    /\ pc' = "done"
    /\ result' = all_starters
    /\ UNCHANGED <<pages, race_date, pg, lines, i, current, blocks, hdr, b, all_starters,
                   run_vars, race_ids, scan_vars>>

\* if not hm: continue
PageRejected ==
    /\ pc = "page" /\ pg <= Len(pages)
    /\ pages[pg] # <<>>
    /\ ~re_match(PAT_RACE, pages[pg][1]).ok
    /\ pg' = pg + 1
    /\ UNCHANGED <<pages, race_date, pc, lines, i, current, blocks, hdr, b,
                   all_starters, result,
                   run_vars, race_ids, scan_vars>>

\* the header matched, but the conversion of its prize raises: the exception
\* leaves parse_wettstar_pdf and the caller gets no list
PageHeaderRaises ==
    /\ pc = "page" /\ pg <= Len(pages)
    /\ pages[pg] # <<>>
    /\ re_match(PAT_RACE, pages[pg][1]).ok
    /\ HeaderRaises(pages[pg])
    /\ pc' = "raised"
    /\ UNCHANGED <<pages, race_date, pg, lines, i, current, blocks, hdr, b,
                   all_starters, result,
                   run_vars, race_ids, scan_vars>>

\* the block list outlives the page: split_blocks appends to the blocks of
\* the pages before
PageAccepted_KeepsBlocks ==
    /\ pc = "page" /\ pg <= Len(pages)
    /\ pages[pg] # <<>>
    /\ re_match(PAT_RACE, pages[pg][1]).ok
    /\ ~HeaderRaises(pages[pg])
    /\ hdr' = HeaderFields(pages[pg])
    /\ lines' = pages[pg]
    /\ i' = 1 /\ current' = <<>>
    /\ pc' = "split"
    /\ UNCHANGED <<pages, race_date, pg, blocks, b, all_starters, result,
                   run_vars, race_ids, scan_vars>>
\* the header matched: its fields are read and split_blocks(lines) is entered
PageAccepted ==
    /\ pc = "page" /\ pg <= Len(pages)
    /\ pages[pg] # <<>>
    /\ re_match(PAT_RACE, pages[pg][1]).ok
    /\ ~HeaderRaises(pages[pg])
    /\ hdr' = HeaderFields(pages[pg])
    /\ lines' = pages[pg]
    /\ i' = 1 /\ current' = <<>> /\ blocks' = <<>>
    /\ pc' = "split"
    /\ UNCHANGED <<pages, race_date, pg, b, all_starters, result,
                   run_vars, race_ids, scan_vars>>

\* one round of `for block in blocks`: s = parse_starter(...); if s: append
Starter ==
    /\ pc = "starters" /\ b <= Len(blocks)
    /\ \E r \in {parse_starter(blocks[b], hdr, PyInt(Len(blocks)), race_date)} :
           /\ pc' = IF r.kind = "raise" THEN "raised" ELSE pc
           /\ b' = IF r.kind = "raise" THEN b ELSE b + 1
           /\ all_starters' = IF r.kind = "record" THEN Append(all_starters, r.s)
                              ELSE all_starters
    /\ UNCHANGED <<pages, race_date, pg, lines, i, current, blocks, hdr, result,
                   run_vars, race_ids, scan_vars>>

\* the blocks of the page are done: next page
PageDone ==
    /\ pc = "starters" /\ b > Len(blocks)
    /\ pg' = pg + 1
    /\ pc' = "page"
    /\ UNCHANGED <<pages, race_date, lines, i, current, blocks, hdr, b,
                   all_starters, result,
                   run_vars, race_ids, scan_vars>>

\* return all_starters
Return ==
    /\ pc = "page" /\ pg > Len(pages)
    /\ pc' = "done"
    /\ result' = all_starters
    /\ UNCHANGED <<pages, race_date, pg, lines, i, current, blocks, hdr, b,
                   all_starters,
                   run_vars, race_ids, scan_vars>>

(***************************************************************************)
(* The results scrapers: wettstar_results_scraper.run and run_scraper of   *)
(* the earlier revision.  The website is an input: site[id] says what the  *)
(* race page of id gives.  An interrupt may strike while an iteration is   *)
(* under way.                                                              *)
(***************************************************************************)
\* the periodic checkpoint of run: if i % 200 == 0
CP_EVERY == 200

\* the periodic checkpoint of run_scraper: if i % 50 == 0
CP_EVERY_SCRAPER == 50

\* the elements of a list
Elems(s) == {s[k] : k \in 1..Len(s)}

\* every id is left to scrape, the known ones too
Todo_All(ids, done) == ids

\* todo = [rid for rid in race_ids if rid not in done_ids]
Todo(ids, done) ==
    LET Open(rid) == rid \notin done
    IN  SelectSeq(ids, Open)

\* the new ids alone
CpContent_OnlyNew(done, new) == Elems(new)

\* done_ids | set(new_done): what _save_cp is given
CpContent(done, new) == done \cup Elems(new)

NoStats == [ok |-> 0, no_result |-> 0, no_starter |-> 0]

\* done_ids = set(json.load(f)) if cp_file.exists()
LoadCheckpoint ==
    /\ rpc = "start"
    /\ done_ids' = cp_file
    /\ rpc' = "ids"
    /\ UNCHANGED <<horse_vars, prog, site, cp_file, written, todo, idx, new_done,
                   all_results, run_stats, errors, fetched, html, race_ids, scan_vars>>

\* the race ids are known: todo, all_results, new_done and the counters are set
StartScraping ==
    /\ rpc = "ids"
    /\ todo' = Todo(race_ids, done_ids)
    /\ all_results' = <<>> /\ new_done' = <<>> /\ errors' = <<>>
    /\ run_stats' = NoStats
    /\ idx' = 1
    /\ rpc' = "loop"
    /\ UNCHANGED <<horse_vars, prog, site, cp_file, written, done_ids, fetched, html,
                   race_ids, scan_vars>>

\* html = await fetch(page, f'{BASE}/race/{race_id}'), and the page.goto of
\* scrape_race
FetchRace ==
    /\ rpc = "loop" /\ idx <= Len(todo)
    /\ fetched' = Append(fetched, todo[idx])
    /\ html' = site[todo[idx]]
    /\ rpc' = "fetched"
    /\ UNCHANGED <<horse_vars, prog, site, cp_file, written, done_ids, todo, idx,
                   new_done, all_results, run_stats, errors, race_ids, scan_vars>>

\* the id of a failed fetch is not put on new_done
RaceUnreachable_NotDone ==
    /\ rpc = "fetched" /\ prog = "run" /\ html = "unreachable"
    /\ idx' = idx + 1
    /\ rpc' = "loop"
    /\ UNCHANGED <<horse_vars, prog, site, cp_file, written, done_ids, todo, new_done,
                   all_results, run_stats, errors, fetched, html, race_ids, scan_vars>>

\* if not html: new_done.append(race_id); continue
RaceUnreachable ==
    /\ rpc = "fetched" /\ prog = "run" /\ html = "unreachable"
    /\ new_done' = Append(new_done, todo[idx])
    /\ idx' = idx + 1
    /\ rpc' = "loop"
    /\ UNCHANGED <<horse_vars, prog, site, cp_file, written, done_ids, todo,
                   all_results, run_stats, errors, fetched, html, race_ids, scan_vars>>

\* if 'Ergebnis' not in html: the counter, new_done.append(race_id); continue
RaceNoResult ==
    /\ rpc = "fetched" /\ prog = "run" /\ html = "no_result"
    /\ run_stats' = [run_stats EXCEPT !.no_result = @ + 1]
    /\ new_done' = Append(new_done, todo[idx])
    /\ idx' = idx + 1
    /\ rpc' = "loop"
    /\ UNCHANGED <<horse_vars, prog, site, cp_file, written, done_ids, todo,
                   all_results, errors, fetched, html, race_ids, scan_vars>>

\* the end of an iteration of run that reached new_done.append(race_id):
\* the checkpoint is written when i % 200 == 0
RaceRecorded(rows, counter) ==
    /\ all_results' = all_results \o rows
    /\ run_stats' = [run_stats EXCEPT ![counter] = @ + 1]
    /\ new_done' = Append(new_done, todo[idx])
    /\ IF idx % CP_EVERY = 0
       THEN /\ cp_file' = CpContent(done_ids, new_done')
            /\ written' = Append(written, cp_file')
       ELSE UNCHANGED <<cp_file, written>>
    /\ idx' = idx + 1
    /\ rpc' = "loop"
    /\ UNCHANGED <<horse_vars, prog, site, done_ids, todo, errors, fetched, html,
                   race_ids, scan_vars>>

\* rows = parse_race_page(html, race_id); if rows: all_results.extend(rows)
RaceRows ==
    /\ rpc = "fetched" /\ prog = "run" /\ html = "rows"
    /\ RaceRecorded(<<todo[idx]>>, "ok")

\* else: the page has a result and no starter row
RaceNoRows ==
    /\ rpc = "fetched" /\ prog = "run" /\ html = "no_rows"
    /\ RaceRecorded(<<>>, "no_starter")

\* except Exception: new_done.append(race_id)
RaceRaises ==
    /\ rpc = "fetched" /\ prog = "run" /\ html = "raises"
    /\ new_done' = Append(new_done, todo[idx])
    /\ idx' = idx + 1
    /\ rpc' = "loop"
    /\ UNCHANGED <<horse_vars, prog, site, cp_file, written, done_ids, todo,
                   all_results, run_stats, errors, fetched, html, race_ids, scan_vars>>

\* the end of an iteration of run_scraper that did not raise: the checkpoint
\* is written when i % 50 == 0
ScrapeRecorded(rows) ==
    /\ all_results' = all_results \o rows
    /\ new_done' = Append(new_done, todo[idx])
    /\ IF idx % CP_EVERY_SCRAPER = 0
       THEN /\ cp_file' = CpContent(done_ids, new_done')
            /\ written' = Append(written, cp_file')
       ELSE UNCHANGED <<cp_file, written>>
    /\ idx' = idx + 1
    /\ rpc' = "loop"
    /\ UNCHANGED <<horse_vars, prog, site, done_ids, todo, run_stats, errors, fetched,
                   html, race_ids, scan_vars>>

\* starters = await scrape_race(page, race_id); if starters: ...
ScrapeStarters ==
    /\ rpc = "fetched" /\ prog = "run_scraper" /\ html = "rows"
    /\ ScrapeRecorded(<<todo[idx]>>)

\* else: new_scraped.append(race_id); scrape_race gives [] for a page it
\* could not get, one without result and one without starters
ScrapeEmpty ==
    /\ rpc = "fetched" /\ prog = "run_scraper"
    /\ html \in {"unreachable", "no_result", "no_rows"}
    /\ ScrapeRecorded(<<>>)

\* except Exception: errors.append((race_id, str(e)))
ScrapeRaises ==
    /\ rpc = "fetched" /\ prog = "run_scraper" /\ html = "raises"
    /\ errors' = Append(errors, todo[idx])
    /\ idx' = idx + 1
    /\ rpc' = "loop"
    /\ UNCHANGED <<horse_vars, prog, site, cp_file, written, done_ids, todo, new_done,
                   all_results, run_stats, fetched, html, race_ids, scan_vars>>

\* except KeyboardInterrupt: break
Interrupted ==
    /\ \/ rpc = "loop" /\ idx <= Len(todo)
       \/ rpc = "fetched"
    /\ rpc' = "closing"
    /\ UNCHANGED <<horse_vars, prog, site, cp_file, written, done_ids, todo, idx,
                   new_done, all_results, run_stats, errors, fetched, html, race_ids,
                   scan_vars>>

\* the interrupt reaches the coroutine as a cancellation at its await, which
\* neither except clause catches: asyncio.run(run(args)) ends with nothing saved
InterruptEscapes ==
    /\ \/ rpc = "loop" /\ idx <= Len(todo)
       \/ rpc = "fetched"
    /\ rpc' = "aborted"
    /\ UNCHANGED <<horse_vars, prog, site, cp_file, written, done_ids, todo, idx,
                   new_done, all_results, run_stats, errors, fetched, html, race_ids,
                   scan_vars>>

\* the loop has run through todo
LoopDone ==
    /\ rpc = "loop" /\ idx > Len(todo)
    /\ rpc' = "closing"
    /\ UNCHANGED <<horse_vars, prog, site, cp_file, written, done_ids, todo, idx,
                   new_done, all_results, run_stats, errors, fetched, html, race_ids,
                   scan_vars>>

\* _save_cp(cp_file, done_ids | set(new_done)) after the loop
FinalSave ==
    /\ rpc = "closing"
    /\ cp_file' = CpContent(done_ids, new_done)
    /\ written' = Append(written, cp_file')
    /\ rpc' = "saved"
    /\ UNCHANGED <<horse_vars, prog, site, done_ids, todo, idx, new_done,
                   all_results, run_stats, errors, fetched, html, race_ids, scan_vars>>

(***************************************************************************)
(* The calendar scan of wettstar_results_scraper.run (--from-date).  The   *)
(* website is an input: CalendarPage says what the calendar page of a day  *)
(* and its meeting pages give.                                             *)
(***************************************************************************)
\* the format '%Y-%m-%d' as strptime compiles it; strptime refuses text left
\* over after the match, which the closing anchor stands for
PAT_YMD ==
    Cat(<<Bol, Grp(1, Rep(D, 4, 4)), Lit("-"),
          Grp(2, Alt(Cat(<<Lit("1"), In({"0", "1", "2"})>>),
                     Alt(Cat(<<Lit("0"), In(Digit \ {"0"})>>), In(Digit \ {"0"})))),
          Lit("-"),
          Grp(3, Alt(Cat(<<Lit("3"), In({"0", "1"})>>),
                     Alt(Cat(<<In({"1", "2"}), D>>),
                         Alt(Cat(<<Lit("0"), In(Digit \ {"0"})>>),
                             Alt(In(Digit \ {"0"}),
                                 Cat(<<Lit(" "), In(Digit \ {"0"})>>)))))),
          Eol>>)

\* the date of a match m of PAT_YMD on s: ValueError unless it is a date
DateOf(s, m) ==
    IF ~m.ok THEN [ok |-> FALSE, day |-> 0]
    ELSE IF ~ValidDate(int(group(s, m, 1)), int(group(s, m, 2)), int(strip(group(s, m, 3))))
    THEN [ok |-> FALSE, day |-> 0]
    ELSE [ok |-> TRUE,
          day |-> Ordinal(int(group(s, m, 1)), int(group(s, m, 2)),
                          int(strip(group(s, m, 3))))]

\* datetime.strptime(s, '%Y-%m-%d'), as the day's ordinal
strptime(s) == DateOf(s, re_match(PAT_YMD, s))

\* datetime.max: 9999-12-31; a day added to it raises OverflowError
MAX_ORDINAL == 3652059

\* the ids on the meeting pages of day d
IdBase(d) == (d % 50) * 10

Unreachable == [ok |-> FALSE, meetings |-> <<>>]

\* the calendar pages a day can have: not fetched, no German meeting, two
\* meetings the first of which is not fetched, three meetings one of which
\* lists no race, with an id listed twice
CalendarKinds(d) ==
    <<Unreachable,
      [ok |-> TRUE, meetings |-> <<>>],
      [ok |-> TRUE,
       meetings |-> <<[ok |-> FALSE, rids |-> <<>>],
                      [ok |-> TRUE, rids |-> <<IdBase(d) + 1, IdBase(d) + 2>>]>>],
      [ok |-> TRUE,
       meetings |-> <<[ok |-> TRUE, rids |-> <<>>],
                      [ok |-> TRUE, rids |-> <<IdBase(d) + 2, IdBase(d) + 3>>],
                      [ok |-> TRUE, rids |-> <<IdBase(d) + 2>>]>>]>>

\* what calendar c serves for day d
CalendarPage(c, d) == CalendarKinds(d)[((d + c) % 4) + 1]

\* sorted(ids) for a set of ids: the k-th element has k - 1 ids below it
sorted(ids) ==
    [k \in 1..Cardinality(ids) |->
        CHOOSE x \in ids : Cardinality({y \in ids : y < x}) = k - 1]

\* to_date = args.to_date or datetime.today().strftime('%Y-%m-%d');
\* current, end = the two dates; a text that is no date raises ValueError
ScanStart ==
    /\ spc = "args"
    /\ \E t \in {IF to_date = "" THEN today_is ELSE to_date} :
          /\ to_date' = t
          /\ IF strptime(from_date).ok /\ strptime(t).ok
             THEN /\ current_day' = strptime(from_date).day
                  /\ end_day' = strptime(t).day
                  /\ spc' = "day"
             ELSE /\ UNCHANGED <<current_day, end_day>>
                  /\ spc' = "raised"
    /\ race_ids' = <<>>
    /\ scanned' = 0
    /\ UNCHANGED <<horse_vars, run_vars, from_date, today_is, calendar, de_meetings,
                   day_race_ids, cal_log>>

\* the failed fetch leaves current where it is
DayUnreachable_Stays ==
    /\ spc = "day" /\ current_day <= end_day
    /\ ~CalendarPage(calendar, current_day).ok
    /\ cal_log' = Append(cal_log, current_day)
    /\ UNCHANGED <<horse_vars, run_vars, race_ids, from_date, to_date, today_is, calendar,
                   current_day, end_day, scanned, de_meetings, day_race_ids, spc>>

\* cal_html = await fetch(...); if not cal_html: current += timedelta(days=1);
\* continue
DayUnreachable ==
    /\ spc = "day" /\ current_day <= end_day
    /\ ~CalendarPage(calendar, current_day).ok
    /\ cal_log' = Append(cal_log, current_day)
    /\ IF current_day = MAX_ORDINAL
       THEN spc' = "raised" /\ UNCHANGED current_day
       ELSE current_day' = current_day + 1 /\ UNCHANGED spc
    /\ UNCHANGED <<horse_vars, run_vars, race_ids, from_date, to_date, today_is, calendar,
                   end_day, scanned, de_meetings, day_race_ids>>

\* the calendar page lists no German meeting: scanned += 1; current += 1 day
DayNoMeeting ==
    /\ spc = "day" /\ current_day <= end_day
    /\ CalendarPage(calendar, current_day).ok
    /\ CalendarPage(calendar, current_day).meetings = <<>>
    /\ cal_log' = Append(cal_log, current_day)
    /\ scanned' = scanned + 1
    /\ IF current_day = MAX_ORDINAL
       THEN spc' = "raised" /\ UNCHANGED current_day
       ELSE current_day' = current_day + 1 /\ UNCHANGED spc
    /\ UNCHANGED <<horse_vars, run_vars, race_ids, from_date, to_date, today_is, calendar,
                   end_day, de_meetings, day_race_ids>>

\* if de_meetings: day_race_ids = []; for meet in de_meetings
DayMeetings ==
    /\ spc = "day" /\ current_day <= end_day
    /\ CalendarPage(calendar, current_day).ok
    /\ CalendarPage(calendar, current_day).meetings # <<>>
    /\ cal_log' = Append(cal_log, current_day)
    /\ de_meetings' = CalendarPage(calendar, current_day).meetings
    /\ day_race_ids' = <<>>
    /\ spc' = "meetings"
    /\ UNCHANGED <<horse_vars, run_vars, race_ids, from_date, to_date, today_is, calendar,
                   current_day, end_day, scanned>>

\* meet_html = await fetch(...) gave nothing: the next meeting
MeetingUnreachable ==
    /\ spc = "meetings" /\ de_meetings # <<>>
    /\ ~Head(de_meetings).ok
    /\ de_meetings' = Tail(de_meetings)
    /\ UNCHANGED <<horse_vars, run_vars, race_ids, from_date, to_date, today_is, calendar,
                   current_day, end_day, scanned, day_race_ids, cal_log, spc>>

\* rids = get_race_ids_from_meeting(meet_soup); if rids: day_race_ids.extend(rids)
MeetingIds ==
    /\ spc = "meetings" /\ de_meetings # <<>>
    /\ Head(de_meetings).ok
    /\ day_race_ids' = day_race_ids \o Head(de_meetings).rids
    /\ de_meetings' = Tail(de_meetings)
    /\ UNCHANGED <<horse_vars, run_vars, race_ids, from_date, to_date, today_is, calendar,
                   current_day, end_day, scanned, cal_log, spc>>

\* race_ids.extend(day_race_ids); scanned += 1; current += timedelta(days=1)
DayDone ==
    /\ spc = "meetings" /\ de_meetings = <<>>
    /\ race_ids' = race_ids \o day_race_ids
    /\ scanned' = scanned + 1
    /\ IF current_day = MAX_ORDINAL
       THEN spc' = "raised" /\ UNCHANGED current_day
       ELSE current_day' = current_day + 1 /\ spc' = "day"
    /\ UNCHANGED <<horse_vars, run_vars, from_date, to_date, today_is, calendar, end_day,
                   de_meetings, day_race_ids, cal_log>>

\* the loop is over: race_ids = sorted(set(race_ids))
ScanDone ==
    /\ spc = "day" /\ current_day > end_day
    /\ race_ids' = sorted(Elems(race_ids))
    /\ spc' = "collected"
    /\ UNCHANGED <<horse_vars, run_vars, from_date, to_date, today_is, calendar,
                   current_day, end_day, scanned, de_meetings, day_race_ids, cal_log>>

\* the scraping loop has not begun
RunIdle ==
    /\ written = <<>> /\ done_ids = {} /\ todo = <<>> /\ idx = 0
    /\ new_done = <<>> /\ all_results = <<>> /\ run_stats = NoStats /\ errors = <<>>
    /\ fetched = <<>> /\ html = ""

\* no calendar scan runs
ScanIdle ==
    /\ from_date = "" /\ to_date = "" /\ today_is = "" /\ calendar = 0
    /\ current_day = 0 /\ end_day = 0 /\ scanned = 0 /\ de_meetings = <<>>
    /\ day_race_ids = <<>> /\ cal_log = <<>> /\ spc = "idle"

\* neither results scraper runs
ScraperIdle ==
    /\ prog = "" /\ site = <<>> /\ cp_file = {} /\ race_ids = <<>> /\ rpc = "idle"
    /\ RunIdle /\ ScanIdle

\* the race-card parser does not run
HorseIdle ==
    /\ pages = <<>> /\ race_date = "" /\ pc = "idle" /\ pg = 0 /\ lines = <<>>
    /\ i = 0 /\ current = <<>> /\ blocks = <<>> /\ b = 0
    /\ all_starters = <<>> /\ result = <<>>

(***************************************************************************)
(* Inputs.                                                                 *)
(***************************************************************************)
MaxLines == 4

MaxPages == 2

MaxEntrants == 2

\* a race header: first line, "<nr> <distance> m <name>", prize, class, surface, time
LnRace == "01.02.2026 - Koeln Rennen # 3"
LnDist == "3 1600 m Preis von Koeln"
LnPrize == "5.000 €"
LnClass == "Ausgleich IV"
LnSurface == "Flach"
LnTime == "14:30"
LnNoRace == "Seite 2"
LnPrizeDots == "... €"

\* entrant header lines of shape (a)
LnA == "3 Cid 2025: 2 Starts - 1 Sieg - 0 Platz 900€"
LnA2 == "12 Bella Luna 2025: 10 Starts - 3 Siege - 2 Plätze 15.000€ 2024: 4 Starts - 0 Sieg - 1 Platz 1.200 €"
LnA3 == "5 Dux 2023: 9 Starts - 1 Sieg - 1 Platz ..€ 2025: 0 Starts - 0 Sieg - 0 Platz 0€"
LnADots == "8 Eos 2024: 1 Start - 0 Sieg - 0 Platz ...€"

\* entrant header of shape (b): name, number, pedigree
LnName == "Bel Ami"
LnNr == "07"
LnPed == "4j. br. S (Sire - Dam)"
\* a name line whose stripped text is a single letter
LnName1 == "A "

\* prior-race lines; 01.02 is the meeting day
LnForm == "15.01Koeln 312.5 1600 1.000 3,5 Max Mu"
LnForm3 == "01.02Koeln 155.0 1600 0 2,0 Jo Doe 15.01Koeln 312.5 1600 1.000 3,5 Max Mu Ho, Hu 20.12Bonn 1054.0 2000 500 12,0 Eva"
LnForm3b == "06.12Hoppegarten 2056.5 1800 0 7,1,2 Al Be Ce 01.11Bonn 454.0 2200 2.500 25 Dan Ek 12.10Koeln 157.0 1400 300 ,5 Flo Gil x"
LnForm2 == "28.09Muenchen 955.5 2000 0 11,0 Gus Hal 01.02Koeln 155.0 1600 0 2,0 Ida Jo 30.08Bonn 254.5 1850 1.000 4,4 Kim Lu"
LnFormDot == "15.01Koeln 312.5 1600 . 3,5 Max Mu"
LnTrainer == "Trainer: A. Bc"

LinePool == {LnA, LnName, LnNr, LnPed, LnForm}

Header6 == <<LnRace, LnDist, LnPrize, LnClass, LnSurface, LnTime>>

\* seven prior races, two more dated today, on three lines
BlkLong == <<LnA2, LnPed, LnForm3, LnForm3b, LnForm2>>
\* shape (b) with one prior race
BlkTwoLine == <<LnName, LnNr, LnPed, LnForm>>
\* shape (b) whose synthesized first line fails the identity pattern
BlkNoIdent == <<LnName1, LnNr, LnPed, LnForm>>
\* no history; a dotted prize of a year that is no reference year
BlkBare == <<LnA3, LnTrainer>>
\* the prize of a reference year has no digit
BlkStatsDots == <<LnADots, LnForm>>
\* the prize of a kept prior race has no digit
BlkFormDots == <<LnA, LnFormDot>>

PagePool ==
    { <<>>,
      <<LnNoRace>> \o BlkTwoLine,
      <<LnRace, LnDist, LnPrizeDots>> \o BlkBare,
      Header6 \o BlkLong \o BlkTwoLine,
      <<LnRace>> \o BlkNoIdent \o BlkBare,
      Header6 \o BlkBare \o BlkStatsDots \o BlkTwoLine,
      <<LnRace, LnDist>> \o BlkNoIdent \o BlkTwoLine \o BlkFormDots }

RaceDates == {"2026-02-01"}

SeqsUpTo(set, n) == UNION {[1..m -> set] : m \in 0..n}

NoHdr ==
    [venue |-> PyStr(""), race_nr |-> PyInt(0), surface |-> PyStr(""),
     race_time |-> PyStr(""), race_name |-> PyStr(""), distance_m |-> PyInt(0),
     prize_eur |-> PyInt(0)]

\* parse_wettstar_pdf on a document of up to MaxPages pages
Init ==
    /\ pages \in SeqsUpTo(PagePool, MaxPages)
    /\ race_date \in RaceDates
    /\ pc = "page" /\ pg = 1
    /\ lines = <<>>
    /\ i = 1 /\ current = <<>> /\ blocks = <<>>
    /\ hdr = NoHdr
    /\ b = 1
    /\ all_starters = <<>>
    /\ result = <<>>
    /\ ScraperIdle

Next ==
    \/ PageNoText \/ PageRejected \/ PageHeaderRaises \/ PageAccepted
    \/ SplitA \/ SplitB \/ SplitOther \/ SplitEnd
    \/ Starter \/ PageDone \/ Return

Spec == Init /\ [][Next]_vars

\* split_blocks on its own, called on any list of up to MaxLines lines
InitSplit ==
    /\ lines \in SeqsUpTo(LinePool, MaxLines)
    /\ pages = <<lines>>
    /\ race_date \in RaceDates
    /\ pc = "split" /\ pg = 1
    /\ i = 1 /\ current = <<>> /\ blocks = <<>>
    /\ hdr = NoHdr
    /\ b = 1
    /\ all_starters = <<>>
    /\ result = <<>>
    /\ ScraperIdle

NextSplit == SplitA \/ SplitB \/ SplitOther \/ SplitEnd

SpecSplit == InitSplit /\ [][NextSplit]_vars

\* the entrants a page is put together from, each as the page prints it
EntrantPool == {BlkLong, BlkTwoLine, BlkNoIdent, BlkBare, BlkStatsDots, BlkFormDots}

RECURSIVE Flatten(_)
Flatten(ss) == IF ss = <<>> THEN <<>> ELSE Head(ss) \o Flatten(Tail(ss))

\* parse_wettstar_pdf on a document of one page: a race header and up to
\* MaxEntrants entrants
InitPage ==
    /\ \E es \in SeqsUpTo(EntrantPool, MaxEntrants) : pages = <<Header6 \o Flatten(es)>>
    /\ race_date \in RaceDates
    /\ pc = "page" /\ pg = 1
    /\ lines = <<>>
    /\ i = 1 /\ current = <<>> /\ blocks = <<>>
    /\ hdr = NoHdr
    /\ b = 1
    /\ all_starters = <<>>
    /\ result = <<>>
    /\ ScraperIdle

NextPage ==
    \/ PageAccepted
    \/ SplitA \/ SplitB \/ SplitOther \/ SplitEnd
    \/ Starter \/ PageDone \/ Return

SpecPage == InitPage /\ [][NextPage]_vars

\* prior races dated today: one whose rest is blank, one with a jockey
LnFormTodayBlank == "01.02Koeln 155.0 1600 0 2,0  "
LnFormToday == "01.02Koeln 155.0 1600 0 2,0 Jo Doe"

\* a today-dated entry without a jockey, then one prior race
BlkTodayBlank == <<LnA, LnFormTodayBlank, LnForm>>
\* a today-dated entry and no prior race
BlkTodayOnly == <<LnA, LnFormToday>>

\* prior races finished 20th, and 4th
LnFormFar == "06.12Hoppegarten 2056.5 1800 0 7,1,2 Al Be Ce"
LnForm4th == "06.10Bonn 454.0 2200 2.500 25 Dan Ek"

\* the only prior race was finished 20th
BlkFarBack == <<LnA, LnFormFar>>
\* prior races finished 3rd, 10th and 4th
BlkThree == <<LnA, LnForm3, LnForm4th>>

\* today's jockey shares the last name of the jockey of the first prior race,
\* and shares it but for the case of a letter
LnFormTodayMu == "01.02Koeln 155.0 1600 0 2,0 Jo Mu"
LnFormTodayLc == "01.02Koeln 155.0 1600 0 2,0 Jo mu"

BlkSameLast == <<LnA, LnFormTodayMu, LnForm>>
BlkLowerLast == <<LnA, LnFormTodayLc, LnForm>>

\* the declared weight before the owner; the same broken over two lines
LnOwner == "56.50 Besitzer: Stall X"
LnWeightAlone == "57.04"
LnOwnerAlone == "Besitzer: Stall X"

\* a declared weight of 56.5 and a prior race under 54.0
BlkWeighed == <<LnA, LnOwner, LnForm4th>>
\* a declared weight of 57.04 on a line of its own
BlkWeighedSplit == <<LnA, LnWeightAlone, LnOwnerAlone, LnForm4th>>
\* a declared weight and no prior race
BlkWeighedNew == <<LnA, LnOwner>>

\* statistics of 2023 before those of 2024; statistics of 2022 alone
LnAOld == "6 Fax 2023: 9 Starts - 1 Sieg - 1 Platz 700€ 2024: 4 Starts - 2 Siege - 1 Platz 1.200 €"
LnAOnlyOld == "9 Gil 2022: 7 Starts - 2 Siege - 1 Platz 600€"

BlkOldYear == <<LnAOld, LnForm>>
BlkOnlyOld == <<LnAOnlyOld, LnTrainer>>

\* wagering lines: of the layout, and with the box digits lost
LnWager == "B M o L x : : 12 5 ,5 0"
LnWagerNoBox == "B M o L : 125 ,5"

BlkWager == <<LnA, LnWager, LnForm>>
BlkWagerNoBox == <<LnA, LnWagerNoBox, LnForm>>

\* a line that begins like a pedigree line and is none
LnPedStub == "4j. br. S"
\* a pedigree line with blanks around the names
LnPedWide == "3j. db W ( Big Sir  -  La Dam e )"

\* pedigree on the second line, no connection label
BlkPed == <<LnA, LnPed, LnForm>>
\* a line that merely begins with "<age>j." ahead of the pedigree line
BlkPedShadow == <<LnA, LnPedStub, LnPedWide, LnForm>>
\* two pedigree lines
BlkPedTwice == <<LnA, LnTrainer, LnPedWide, LnPed>>
\* the pedigree line is the fourth line after the first
BlkPedFifth == <<LnA, LnTrainer, LnOwner, LnForm, LnPed>>
\* only the line that begins like a pedigree line
BlkPedStub == <<LnA, LnPedStub, LnForm>>

\* wagering lines with a name after the odds and box fields
LnWagerB == "B M o L x : : 12 5 ,5 0 Kai Uwe von Berg"
LnWagerBForm == "B M o L x : : 7 11,0 Kai Uwe 15.01Koeln 312.5 1600 1.000 3,5 Max Mu"
\* an entry dated today with four words after the odds
LnFormToday4 == "01.02Koeln 155.0 1600 0 2,0 Jo Doe Bel Ami"

BlkWagerB == <<LnA, LnWagerB, LnForm>>
BlkWagerBToday == <<LnA, LnWagerB, LnFormToday4, LnForm>>
BlkWagerBForm == <<LnA, LnWagerBForm>>
BlkWagerBOnly == <<LnA, LnWagerB>>

WagerBPool == {BlkWagerB, BlkWagerBToday, BlkWagerBForm, BlkWagerBOnly}

PedPool == {BlkPed, BlkPedShadow, BlkPedTwice, BlkPedFifth, BlkPedStub}

\* the entrants whose derived fields are examined
\* a prior race with nothing after its odds but blanks, and one with a jockey
LnFormBlank == "15.01Koeln 312.5 1600 1.000 3,5  "
LnFormEva == "20.12Bonn 1054.0 2000 500 12,0 Eva Ro"

\* the first prior race yields no jockey, the second does; no entry of today
BlkBlankFirst == <<LnA, LnFormBlank, LnFormEva>>
\* two prior races under different jockeys; no entry of today
BlkPair == <<LnA, LnForm, LnFormEva>>

JockeyPool == {BlkBlankFirst, BlkPair}
FeatPool ==
    {BlkLong, BlkTwoLine, BlkBare, BlkTodayBlank, BlkTodayOnly, BlkFarBack, BlkThree,
     BlkSameLast, BlkLowerLast, BlkWeighed, BlkWeighedSplit, BlkWeighedNew,
     BlkOldYear, BlkOnlyOld, BlkWager, BlkWagerNoBox}
    \cup PedPool \cup WagerBPool \cup JockeyPool

\* a race header whose second line names no distance
LnNoDist == "Preis von Koeln"
HeaderNoDist == <<LnRace, LnNoDist, LnPrize, LnClass, LnSurface, LnTime>>

\* a full race header, and one without the distance
FeatHeaders == {Header6, HeaderNoDist}

\* parse_wettstar_pdf on a document of one page with one entrant
InitFeat ==
    /\ \E hd \in FeatHeaders, e \in FeatPool : pages = <<hd \o e>>
    /\ race_date \in RaceDates
    /\ pc = "page" /\ pg = 1
    /\ lines = <<>>
    /\ i = 1 /\ current = <<>> /\ blocks = <<>>
    /\ hdr = NoHdr
    /\ b = 1
    /\ all_starters = <<>>
    /\ result = <<>>
    /\ ScraperIdle

NextFeat ==
    \/ PageAccepted
    \/ SplitA \/ SplitB \/ SplitOther \/ SplitEnd
    \/ Starter \/ PageDone \/ Return

SpecFeat == InitFeat /\ [][NextFeat]_vars

DigitStr == <<"0", "1", "2", "3", "4", "5", "6", "7", "8", "9">>

\* n in 0..99 as the page prints it
TwoDigits(n) == DigitStr[(n \div 10) + 1] \o DigitStr[(n % 10) + 1]

\* one prior race dated dd.mm
FormLineOn(dd, mm) ==
    TwoDigits(dd) \o "." \o TwoDigits(mm) \o "Koeln 312.5 1600 1.000 3,5 Max Mu"

\* the days and months a prior race is dated with: every calendar date and
\* the digits just outside the calendar
EntryDays == 0..32
EntryMonths == 0..13

\* meetings early and late in a year, and one after a leap day
MeetingDates == {"2026-02-01", "2026-01-15", "2025-12-31", "2024-03-01"}

\* parse_wettstar_pdf on a one-page document whose one entrant has one prior
\* race, for every date of that race and each of the meeting dates
InitDays ==
    /\ \E dd \in EntryDays, mm \in EntryMonths :
           pages = <<<<LnRace, LnA, FormLineOn(dd, mm)>>>>
    /\ race_date \in MeetingDates
    /\ pc = "page" /\ pg = 1
    /\ lines = <<>>
    /\ i = 1 /\ current = <<>> /\ blocks = <<>>
    /\ hdr = NoHdr
    /\ b = 1
    /\ all_starters = <<>>
    /\ result = <<>>
    /\ ScraperIdle

NextDays ==
    \/ PageAccepted
    \/ SplitA \/ SplitOther \/ SplitEnd
    \/ Starter \/ PageDone \/ Return

SpecDays == InitDays /\ [][NextDays]_vars

\* the parts a wagering line is printed from: the odds before the comma, the
\* box digits, the digit after the comma and the broken-off box digits
OddsInts == {"1", "12", "120"}
BoxDigits == {"5", "11"}
OddsDecimals == {"0", "5"}
BoxFragments == {"", "0", "3", "00"}
\* the text between the box digits and the comma, and after the odds decimal
Gaps == {"", " "}

\* a wagering line of the scrambled layout
WagerLine(o, bx, g1, dc, g2, fr) == "B M o L x : : " \o o \o " " \o bx \o g1 \o "," \o dc \o g2 \o fr

\* parse_wettstar_pdf on a one-page document whose one entrant has a
\* wagering line, for every combination of its parts
InitBox ==
    /\ \E o \in OddsInts, bx \in BoxDigits, g1 \in Gaps, dc \in OddsDecimals,
          g2 \in Gaps, fr \in BoxFragments :
           pages = <<<<LnRace, LnA, WagerLine(o, bx, g1, dc, g2, fr), LnForm>>>>
    /\ race_date \in RaceDates
    /\ pc = "page" /\ pg = 1
    /\ lines = <<>>
    /\ i = 1 /\ current = <<>> /\ blocks = <<>>
    /\ hdr = NoHdr
    /\ b = 1
    /\ all_starters = <<>>
    /\ result = <<>>
    /\ ScraperIdle

NextBox ==
    \/ PageAccepted
    \/ SplitA \/ SplitOther \/ SplitEnd
    \/ Starter \/ PageDone \/ Return

SpecBox == InitBox /\ [][NextBox]_vars

\* the race ids 1..MaxId: more than CP_EVERY, so that a run reaches its
\* periodic checkpoint also when the checkpoint file names some of them
MaxId == 204

Ids == 1..MaxId

Kinds == <<"unreachable", "no_result", "no_rows", "rows", "raises">>

\* five websites: each id is of each kind on one of them
MaxSite == 4
SiteOf(k) == [id \in Ids |-> Kinds[((id + k) % 5) + 1]]

\* the ids of a run: none, one (--race-id), or all (a date range, an id range)
RaceLists == {<<>>, <<3>>, [k \in 1..MaxId |-> k]}

\* scraped_ids.json at the start: absent, or left by an earlier run
CpFiles == {{}, {2, 3}, {3, 200, 999}}

\* run and run_scraper from the load of the checkpoint on, the race ids known
InitRun ==
    /\ HorseIdle /\ hdr = NoHdr
    /\ prog \in {"run", "run_scraper"}
    /\ site \in {SiteOf(k) : k \in 0..MaxSite}
    /\ race_ids \in RaceLists
    /\ cp_file \in CpFiles
    /\ rpc = "start"
    /\ RunIdle /\ ScanIdle

NextRun ==
    \/ LoadCheckpoint \/ StartScraping \/ FetchRace
    \/ RaceUnreachable \/ RaceNoResult \/ RaceRows \/ RaceNoRows \/ RaceRaises
    \/ ScrapeStarters \/ ScrapeEmpty \/ ScrapeRaises
    \/ Interrupted \/ InterruptEscapes \/ LoopDone \/ FinalSave

SpecRun == InitRun /\ [][NextRun]_vars

\* --from-date and --to-date: a few days, a single day, an end before the
\* start, no end, a month without leading zero, the last days of datetime,
\* a day that is none, a text that is no date
ScanArgs ==
    {<<"2026-01-30", "2026-02-01">>, <<"2026-01-30", "2026-01-30">>,
     <<"2026-01-30", "2026-01-29">>, <<"2026-01-30", "">>,
     <<"2026-2-27", "2026-03-02">>, <<"9999-12-30", "9999-12-31">>,
     <<"2026-02-30", "2026-03-02">>, <<"2026-01-30", "01.02.2026">>,
     <<"2026-01-30", "2026-03-02">>}
Todays == {"2026-02-03"}
MaxCalendar == 3

\* the calendar scan of run
InitScan ==
    /\ HorseIdle /\ hdr = NoHdr
    /\ prog = "run" /\ site = <<>> /\ cp_file = {} /\ race_ids = <<>> /\ rpc = "idle"
    /\ RunIdle
    /\ \E a \in ScanArgs : from_date = a[1] /\ to_date = a[2]
    /\ today_is \in Todays
    /\ calendar \in 0..MaxCalendar
    /\ current_day = 0 /\ end_day = 0 /\ scanned = 0 /\ de_meetings = <<>>
    /\ day_race_ids = <<>> /\ cal_log = <<>> /\ spc = "args"

NextScan ==
    \/ ScanStart \/ DayUnreachable \/ DayNoMeeting \/ DayMeetings
    \/ MeetingUnreachable \/ MeetingIds \/ DayDone \/ ScanDone

\* the steps of the while loop and the step that ends it
ScanLoop ==
    \/ DayUnreachable \/ DayNoMeeting \/ DayMeetings
    \/ MeetingUnreachable \/ MeetingIds \/ DayDone \/ ScanDone

\* the step that leaves the reading of the arguments, as ScanStart does
ArgsRead == spc = "args" /\ spc' \in {"day", "raised"}

\* the scan is straight-line code whose every fetch returns (page.goto has a
\* timeout, fetch catches its exception): the arguments are read, and a step
\* of the loop that can be taken is taken
SpecScan ==
    InitScan /\ [][NextScan]_vars /\ WF_spc(ArgsRead) /\ WF_vars(ScanLoop)

(***************************************************************************)
(* Properties of split_blocks.                                             *)
(***************************************************************************)
\* the positions at which an entrant header of either shape starts
HeaderPos(ls) == {k \in 1..Len(ls) : ShapeA(ls[k]) \/ ShapeB(ls, k)}

\* the j-th of them in document order
NthHeader(H, j) == CHOOSE k \in H : Cardinality({h \in H : h <= k}) = j

\* the last line before the next header, or the last line of the page
BlockLast(ls, H, j) ==
    IF j = Cardinality(H) THEN Len(ls) ELSE NthHeader(H, j + 1) - 1

FirstHeader(ls, H) == IF H = {} THEN Len(ls) + 1 ELSE NthHeader(H, 1)

RECURSIVE SumLen(_)
SumLen(bl) == IF bl = <<>> THEN 0 ELSE Len(Head(bl)) + SumLen(Tail(bl))

\* C1: split_blocks returns one block per header match, in document order; a
\* shape-(a) block is its header line and the lines up to the next header (the
\* last one up to the end of the page); a shape-(b) block holds, after its
\* first line, the pedigree line and the lines up to the next header.
C1_BlocksPartitionPage ==
    pc = "starters" =>
        LET H == HeaderPos(lines)
        IN  /\ Len(blocks) = Cardinality(H)
            /\ \A j \in 1..Len(blocks) :
                   LET h == NthHeader(H, j)
                       e == BlockLast(lines, H, j)
                   IN  IF ShapeA(lines[h])
                       THEN blocks[j] = SubSeq(lines, h, e)
                       ELSE /\ Len(blocks[j]) >= 1
                            /\ Tail(blocks[j]) = SubSeq(lines, h + 2, e)

\* a page of a preamble line, a header line with a line after it, and a second
\* header line was split into two blocks
C1_Witness ==
    /\ pc = "starters" /\ Len(lines) = 4 /\ Len(blocks) = 2
    /\ ~ShapeA(lines[1]) /\ Len(blocks[1]) = 2 /\ Len(blocks[2]) = 1

\* C2: while the scan has not passed the first header match no block is open
\* and none is closed, and the returned blocks hold exactly the lines from the
\* first header match on (a shape-(b) header turns three lines into two).
C2_PreambleInNoBlock ==
    /\ (pc = "split" /\ (current # <<>> \/ blocks # <<>>)) =>
          \E k \in 1..(i - 1) : ShapeA(lines[k]) \/ ShapeB(lines, k)
    /\ pc = "starters" =>
          LET H == HeaderPos(lines)
          IN  SumLen(blocks) = Len(lines) - (FirstHeader(lines, H) - 1)
                               - Cardinality({h \in H : ~ShapeA(lines[h])})

\* a page with two preamble lines and a block after them was split
C2_Witness ==
    /\ pc = "starters" /\ Len(blocks) >= 1
    /\ FirstHeader(lines, HeaderPos(lines)) = 3

\* C3 as stated: the synthesized first line is the name, a space, the number.
C3_AsClaimed_NameThenNr ==
    pc = "starters" =>
        LET H == HeaderPos(lines)
        IN  \A j \in 1..Len(blocks) :
                LET h == NthHeader(H, j)
                IN  ~ShapeA(lines[h]) =>
                        blocks[j][1] = strip(lines[h]) \o " " \o strip(lines[h + 1])

\* C3 amended: the synthesized first line of a shape-(b) block is the start
\* number, a space, the name (both stripped), followed by the pedigree line.
C3_SynthIsNrThenName ==
    pc = "starters" =>
        LET H == HeaderPos(lines)
        IN  \A j \in 1..Len(blocks) :
                LET h == NthHeader(H, j)
                IN  ~ShapeA(lines[h]) =>
                        /\ blocks[j][1] = strip(lines[h + 1]) \o " " \o strip(lines[h])
                        /\ blocks[j][2] = lines[h + 2]

\* a shape-(b) block was built: "07 Bel Ami"
C3_Witness ==
    /\ pc = "starters" /\ Len(blocks) >= 1
    /\ blocks[Len(blocks)][1] = "07 Bel Ami"

(***************************************************************************)
(* The parser read as a function of the document.  The blocks of a page    *)
(* are read off the header positions, the records of a page off its        *)
(* blocks, and the records of a document off its pages.                    *)
(***************************************************************************)
BlocksFrom(ls, H) ==
    [j \in 1..Cardinality(H) |->
        IF ShapeA(ls[NthHeader(H, j)])
        THEN SubSeq(ls, NthHeader(H, j), BlockLast(ls, H, j))
        ELSE <<SynthHeader(ls[NthHeader(H, j) + 1], ls[NthHeader(H, j)])>>
             \o SubSeq(ls, NthHeader(H, j) + 2, BlockLast(ls, H, j))]

BlocksOf(ls) == BlocksFrom(ls, HeaderPos(ls))

\* the block loop from block n on: the records, or the exception that ends it
RECURSIVE BlockRecords(_, _, _, _, _)
BlockRecords(bl, n, h, date, recs) ==
    IF n > Len(bl) THEN [raised |-> FALSE, recs |-> recs]
    ELSE LET r == parse_starter(bl[n], h, PyInt(Len(bl)), date)
         IN  IF r.kind = "raise" THEN [raised |-> TRUE, recs |-> recs]
             ELSE BlockRecords(bl, n + 1, h, date,
                               IF r.kind = "record" THEN Append(recs, r.s) ELSE recs)

\* whether a page is passed over because its first line is no race header
HeaderMismatch(page) == page # <<>> /\ ~re_match(PAT_RACE, page[1]).ok

\* the page loop from page n on
RECURSIVE PageRecords(_, _, _, _)
PageRecords(ps, n, date, recs) ==
    IF n > Len(ps) THEN [raised |-> FALSE, recs |-> recs]
    ELSE IF ps[n] = <<>> \/ HeaderMismatch(ps[n]) THEN PageRecords(ps, n + 1, date, recs)
    ELSE IF HeaderRaises(ps[n]) THEN [raised |-> TRUE, recs |-> recs]
    ELSE LET o == BlockRecords(BlocksOf(ps[n]), 1, HeaderFields(ps[n]), date, recs)
         IN  IF o.raised THEN o ELSE PageRecords(ps, n + 1, date, o.recs)

DocRecords(ps, date) == PageRecords(ps, 1, date, <<>>)

HeaderMatches(page) == ~HeaderMismatch(page)

\* the document without the pages whose first line is no race header
WithoutMismatch(ps) == SelectSeq(ps, HeaderMatches)

(***************************************************************************)
(* Properties of parse_wettstar_pdf and parse_starter.                     *)
(***************************************************************************)
\* C4: a page whose first line does not match the race-header pattern is
\* passed over without a record and without an exception, and the document
\* ends as it would without such pages: it returns the same records, or it
\* raises exactly when the document without them raises.
C4_MismatchPageAsIfAbsent ==
    /\ (pc = "page" /\ pg <= Len(pages) /\ HeaderMismatch(pages[pg])) =>
          ENABLED PageRejected
    /\ pc = "done" =>
          LET o == DocRecords(WithoutMismatch(pages), race_date)
          IN  ~o.raised /\ result = o.recs
    /\ pc = "raised" => DocRecords(WithoutMismatch(pages), race_date).raised

\* a document with a passed-over page and a page that gave records was parsed
C4_Witness ==
    /\ pc = "done" /\ result # <<>>
    /\ \E n \in 1..Len(pages) : HeaderMismatch(pages[n])

\* whether the identity pattern matches the first line of a block
IdentOK(blk) == re_match(PAT_IDENT, blk[1]).ok

\* the record appended last
LastRec == all_starters[Len(all_starters)]

\* the block loop has just appended the record of block b - 1
RecordGiven == pc = "starters" /\ b > 1 /\ IdentOK(blocks[b - 1])

\* the blocks of the page the block loop has tried, the one that raised included
Tried == SubSeq(blocks, 1, IF pc = "raised" THEN b ELSE b - 1)

\* C5 as stated: on a page with a block that fails the identity pattern, the
\* records of the page so far are those of the other blocks tried, one each,
\* in block order.
C5_AsClaimed_SiblingsKeepRecords ==
    ((pc = "starters" \/ (pc = "raised" /\ b <= Len(blocks)))
     /\ \E j \in 1..Len(Tried) : ~IdentOK(Tried[j])) =>
        LET ok == SelectSeq(Tried, IdentOK)
            prev == Len(all_starters) - Len(ok)
        IN  /\ prev = Len(DocRecords(SubSeq(pages, 1, pg - 1), race_date).recs)
            /\ \A k \in 1..Len(ok) :
                   all_starters[prev + k].horse_name =
                       PyStr(strip(group(ok[k][1], re_match(PAT_IDENT, ok[k][1]), 2)))

\* C6 as stated: no conversion of a captured number raises out of the parser.
C6_AsClaimed_NoConversionRaises == pc # "raised"

\* the number written in the first one or two characters of a line
LeadInt(s) ==
    IF Ch(s, 2) \in Digit THEN 10 * DigitVal(Ch(s, 1)) + DigitVal(Ch(s, 2))
    ELSE DigitVal(Ch(s, 1))

\* C7: the start_nr of a record is the one- or two-digit number that begins
\* the first line of its block, and for a shape-(b) entrant the number of the
\* standalone start-number line.
C7_StartNrIsHeaderNumber ==
    RecordGiven =>
        /\ LastRec.start_nr = PyInt(LeadInt(blocks[b - 1][1]))
        /\ LET h == NthHeader(HeaderPos(lines), b - 1)
           IN  ~ShapeA(lines[h]) => LastRec.start_nr = PyInt(int(lines[h + 1]))

\* the record of the shape-(b) entrant "Bel Ami" carries the number of the
\* line "07"
C7_Witness ==
    /\ RecordGiven /\ ~ShapeA(lines[NthHeader(HeaderPos(lines), b - 1)])
    /\ LastRec.start_nr = PyInt(7)

\* all eight sub-fields of slot n are empty
Unset(rec, n) == \A k \in FORM_KEYS : rec[SlotKey(n, k)] = PyStr("")

\* a key made of "r", a digit and more
SlotLike(key) == Ch(key, 1) = "r" /\ Ch(key, 2) \in Digit

\* C8: in every record a slot after an unset slot is unset, and the record
\* has the sub-fields of the five slots r1..r5 and of no other slot.
C8_SlotsPackedAtMostFive ==
    all_starters # <<>> =>
        /\ \A n \in 2..5 : Unset(LastRec, n - 1) => Unset(LastRec, n)
        /\ {key \in DOMAIN LastRec : SlotLike(key)}
               = {SlotKey(n, k) : n \in 1..5, k \in FORM_KEYS}

\* a record with one prior race: slot 1 is set, slots 2..5 are not
C8_Witness ==
    /\ RecordGiven /\ ~Unset(LastRec, 1)
    /\ \A n \in 2..5 : Unset(LastRec, n)

\* the matches fms of FORM_PAT on a line, each with its line
OnLine(line, fms) == [k \in 1..Len(fms) |-> [line |-> line, fm |-> fms[k]]]

\* the matches of FORM_PAT on the lines n.. of a block, in document order
RECURSIVE FormMatches(_, _)
FormMatches(blk, n) ==
    IF n > Len(blk) THEN <<>>
    ELSE OnLine(blk[n], finditer(FORM_PAT, blk[n])) \o FormMatches(blk, n + 1)

NotToday(x) == group(x.line, x.fm, 1) # TodayOf(race_date)

\* the prior-race entries of a block that are not dated today
Qualifying(blk) == SelectSeq(FormMatches(blk, 2), NotToday)

\* what slot n holds when the entries q fill the slots from the first on
SlotOf(q, n) ==
    IF n <= Len(q)
    THEN FormEntry(q[n].line, q[n].fm, jockey_from_rest(group(q[n].line, q[n].fm, 8)))
    ELSE EmptyEntry

\* C9: slot n of a record holds the n-th entry of its block that is not dated
\* today, counted in document order, for n up to five; the slots beyond the
\* number of such entries are unset.
C9_SlotsAreFirstFiveQualifying ==
    RecordGiven =>
        LET q == Qualifying(blocks[b - 1])
        IN  \A n \in 1..5 : LET e == SlotOf(q, n)
                            IN  \A k \in FORM_KEYS : LastRec[SlotKey(n, k)] = e[k]

\* a block with seven qualifying entries gave a record whose slot 5 holds the
\* fifth of them and whose slot 1 holds the first
C9_Witness ==
    /\ RecordGiven /\ Len(Qualifying(blocks[b - 1])) = 7
    /\ LastRec.r1_date = PyStr("15.01") /\ LastRec.r5_date = PyStr("12.10")

Min(x, y) == IF x < y THEN x ELSE y

\* C10: no slot of a record holds the meeting's DD.MM as its date, and the
\* number of populated slots is the number of entries not dated today, up to
\* five: an entry dated today takes no slot and does not count.
C10_NoTodayEntryInSlots ==
    RecordGiven =>
        /\ \A n \in 1..5 : LastRec[SlotKey(n, "date")] # PyStr(TodayOf(race_date))
        /\ Cardinality({n \in 1..5 : ~Unset(LastRec, n)})
               = Min(5, Len(Qualifying(blocks[b - 1])))

\* the first prior race of the block is dated today, and all five slots of
\* its record are populated
C10_Witness ==
    /\ RecordGiven /\ Len(FormMatches(blocks[b - 1], 2)) > 5
    /\ ~NotToday(FormMatches(blocks[b - 1], 2)[1])
    /\ \A n \in 1..5 : ~Unset(LastRec, n)

IsToday(x) == ~NotToday(x)

\* the jockeys recovered from the today-dated entries of a block, in document order
TodayJockeys(blk) ==
    LET t == SelectSeq(FormMatches(blk, 2), IsToday)
    IN  [k \in 1..Len(t) |-> jockey_from_rest(group(t[k].line, t[k].fm, 8))]

C12_AsClaimed_DaysNotNegative ==
    (RecordGiven /\ LastRec.days_since_last_run.k = "int")
        => LastRec.days_since_last_run.n >= 0

\* the meeting's year, month and day, as numbers
MeetY == int(SubSeq(race_date, 1, 4))
MeetM == int(SubSeq(race_date, 6, 7))
MeetD == int(SubSeq(race_date, 9, 10))

RECURSIVE DayOfYear(_, _, _)
\* the position of a date in its year, counted month by month
DayOfYear(y, mo, d) == IF mo = 1 THEN d ELSE DaysInMonth(y, mo - 1) + DayOfYear(y, mo - 1, d)

\* the days from the entry date dd.mm to the meeting date when the entry is put
\* in the meeting's year if mm is at most the meeting's month, else in the
\* year before
DaysTo(dd, mm) ==
    IF mm <= MeetM THEN DayOfYear(MeetY, MeetM, MeetD) - DayOfYear(MeetY, mm, dd)
    ELSE DayOfYear(MeetY, MeetM, MeetD)
         + (DayOfYear(MeetY - 1, 12, 31) - DayOfYear(MeetY - 1, mm, dd))

\* dd.mm is a date of the calendar in the year the rule puts it in
OnCalendar(dd, mm) ==
    /\ mm \in 1..12
    /\ dd \in 1..DaysInMonth(IF mm <= MeetM THEN MeetY ELSE MeetY - 1, mm)

\* C13: days_since_last_run of a record is the number of days from the date of
\* its first retained entry to the meeting date, the entry's year being the
\* meeting's when the entry's month is at most the meeting's month and the
\* year before otherwise; it is empty when the record has no history (and
\* when the entry's digits are no calendar date).
C13_DaysFromLastRunToMeeting ==
    RecordGiven =>
        IF LastRec.r1_date = PyStr("") THEN LastRec.days_since_last_run = PyStr("")
        ELSE LET dd == int(SubSeq(LastRec.r1_date.s, 1, 2))
                 mm == int(SubSeq(LastRec.r1_date.s, 4, 5))
             IN  IF OnCalendar(dd, mm)
                 THEN LastRec.days_since_last_run = PyInt(DaysTo(dd, mm))
                 ELSE LastRec.days_since_last_run = PyStr("")

\* the meeting of 2026-02-01 with a most recent entry of 15.01 gave 17, one of
\* 15.03 gave the days since the year before
C13_Witness ==
    /\ RecordGiven /\ race_date = "2026-02-01"
    /\ \/ LastRec.r1_date = PyStr("15.01") /\ LastRec.days_since_last_run = PyInt(17)
       \/ LastRec.r1_date = PyStr("15.03") /\ LastRec.days_since_last_run = PyInt(323)

\* the slots of a record that hold a place below 20
LowPlaceSlots(rec) ==
    {n \in 1..5 : rec[SlotKey(n, "place")].k = "int" /\ rec[SlotKey(n, "place")].n < 20}

RECURSIVE SumOver(_, _)
\* the sum of the places held by the slots ns of a record
SumOver(rec, ns) ==
    IF ns = {} THEN 0
    ELSE LET n == CHOOSE n \in ns : TRUE
         IN  rec[SlotKey(n, "place")].n + SumOver(rec, ns \ {n})

\* the float x, counted in hundredths (x has at most two decimals)
Hundredths(x) == x.n * Pow10(2 - x.e)

\* C14: avg_place_last5 is empty exactly when no retained entry has a place
\* below 20; otherwise it is the mean of exactly the retained places below 20,
\* to the nearest hundredth.
C14_AvgOfPlacesBelowTwenty ==
    RecordGiven =>
        LET ns == LowPlaceSlots(LastRec)
            avg == LastRec.avg_place_last5
        IN  /\ (avg = PyStr("")) <=> (ns = {})
            /\ ns # {} =>
                   /\ avg.k = "float" /\ avg.e <= 2
                   /\ 2 * (Hundredths(avg) * Cardinality(ns) - 100 * SumOver(LastRec, ns))
                          <= Cardinality(ns)
                   /\ 2 * (100 * SumOver(LastRec, ns) - Hundredths(avg) * Cardinality(ns))
                          <= Cardinality(ns)

\* a record with a retained place of 20 has the mean 4.5 of its other four
\* places, and one whose places are 3, 10 and 4 has 5.67
C14_Witness ==
    /\ RecordGiven
    /\ \/ /\ LastRec.r3_place = PyInt(20) /\ Cardinality(LowPlaceSlots(LastRec)) = 4
          /\ LastRec.avg_place_last5 = PyFloat(45, 1)
       \/ /\ Cardinality(LowPlaceSlots(LastRec)) = 3
          /\ LastRec.avg_place_last5 = PyFloat(567, 2)

\* the text after the last whitespace of x (all of x when it has none)
AfterLastSpace(x) ==
    LET ps == {q \in 1..Len(x) : Ch(x, q) \in Space}
    IN  IF ps = {} THEN x
        ELSE SubSeq(x, (CHOOSE q \in ps : \A r \in ps : r <= q) + 1, Len(x))

\* C15: jockey_change is empty when the record's jockey or its r1_jockey is
\* missing; otherwise it is 0 when the last whitespace-separated token of the
\* jockey equals, letter case included, the last token of r1_jockey, and 1
\* when the two differ.
C15_JockeyChangeByLastToken ==
    RecordGiven =>
        IF LastRec.jockey = PyStr("") \/ LastRec.r1_jockey = PyStr("")
        THEN LastRec.jockey_change = PyStr("")
        ELSE IF AfterLastSpace(LastRec.jockey.s) = AfterLastSpace(LastRec.r1_jockey.s)
             THEN LastRec.jockey_change = PyInt(0)
             ELSE LastRec.jockey_change = PyInt(1)

\* two different jockeys with the same last token gave 0
C15_Witness ==
    /\ RecordGiven /\ LastRec.jockey = PyStr("Jo Mu") /\ LastRec.r1_jockey = PyStr("Max Mu")
    /\ LastRec.jockey_change = PyInt(0)

\* last tokens that differ only in the case of a letter gave 1
C15_WitnessCase ==
    /\ RecordGiven /\ LastRec.jockey = PyStr("Jo mu") /\ LastRec.r1_jockey = PyStr("Max Mu")
    /\ LastRec.jockey_change = PyInt(1)

\* the float x, counted in units of 10^-e (x has at most e decimals)
Scaled(x, e) == x.n * Pow10(e - x.e)

\* the race header of the page in hand names no distance
DistanceMissing == ~re_search(PAT_DIST, LineOr(lines, 1)).ok

\* C16 as stated: distance_diff_m is empty whenever the record has no history
\* or the page header names no distance, weight_diff_kg is empty whenever the
\* record has no history or no declared weight; otherwise each is today's
\* value minus the value of the first retained entry (the weights to one
\* decimal).
C16_AsClaimed_DiffsEmptyWhenOperandMissing ==
    RecordGiven =>
        LET hist == LastRec.r1_date # PyStr("")
            dd == LastRec.distance_diff_m
            wd == LastRec.weight_diff_kg
        IN  /\ IF ~hist \/ DistanceMissing THEN dd = PyStr("")
               ELSE dd = PyInt(LastRec.distance_m.n - LastRec.r1_distance.n)
            /\ IF ~hist \/ LastRec.weight_kg = PyNone THEN wd = PyStr("")
               ELSE /\ wd.k = "float" /\ wd.e <= 1
                    /\ Scaled(wd, 2) - (Scaled(LastRec.weight_kg, 2) - Scaled(LastRec.r1_weight, 2)) \in -5..5

\* the yearly-stats occurrences of a block's first line
Occurrences(blk) == finditer(STATS_PAT, blk[1])

\* the positions of the occurrences for year y
OccOf(blk, y) ==
    {n \in 1..Len(Occurrences(blk)) : int(group(blk[1], Occurrences(blk)[n], 1)) = y}

\* the four numbers of occurrence n, the prize without its separators
OccValues(blk, n) ==
    LET sm == Occurrences(blk)[n]
    IN  <<int(group(blk[1], sm, 2)), int(group(blk[1], sm, 3)),
          int(group(blk[1], sm, 4)), int(remove(group(blk[1], sm, 5), "."))>>

\* the yearly fields of a record for a reference year
YearFields(rec, y) ==
    IF y = 2025 THEN <<rec.starts_2025, rec.wins_2025, rec.places_2025, rec.prize_2025>>
    ELSE <<rec.starts_2024, rec.wins_2024, rec.places_2024, rec.prize_2024>>

\* C17: the yearly fields of a record for 2025 and for 2024 are those of the
\* (last) yearly-stats occurrence for that year; a reference year without an
\* occurrence has starts, wins, places and prize 0, whatever the occurrences
\* for other years hold.
C17_OnlyReferenceYearsSetStats ==
    RecordGiven =>
        \A y \in {2025, 2024} :
            LET ns == OccOf(blocks[b - 1], y)
                want == IF ns = {} THEN <<0, 0, 0, 0>>
                        ELSE OccValues(blocks[b - 1], CHOOSE n \in ns : \A q \in ns : q <= n)
            IN  YearFields(LastRec, y) = [j \in 1..4 |-> PyInt(want[j])]

\* a first line with occurrences for 2023 and 2024 and none for 2025 gave the
\* numbers of 2024 and zeros for 2025
C17_Witness ==
    /\ RecordGiven
    /\ OccOf(blocks[b - 1], 2023) # {} /\ OccOf(blocks[b - 1], 2025) = {}
    /\ YearFields(LastRec, 2024) = <<PyInt(4), PyInt(2), PyInt(1), PyInt(1200)>>
    /\ YearFields(LastRec, 2025) = <<PyInt(0), PyInt(0), PyInt(0), PyInt(0)>>

\* x is the ratio n / d to the nearest 10^-k (d > 0)
NearestTo(x, n, d, k) ==
    /\ x.k = "float" /\ x.e <= k
    /\ 2 * (Scaled(x, k) * d - n * Pow10(k)) <= d
    /\ 2 * (n * Pow10(k) - Scaled(x, k) * d) <= d

\* x is 0 when d is 0, and n / d to k decimals otherwise
RatioOrZero(x, n, d, k) == IF d = 0 THEN x = PyInt(0) ELSE NearestTo(x, n, d, k)

\* C18: win_pct and place_pct of a year are 0 when that year's starts are 0,
\* career_win_pct and career_roi_approx are 0 when total_starts is 0, and
\* otherwise each is its ratio (to four decimals, the last to two);
\* total_starts and total_wins are the sums over the two reference years.
C18_NoZeroDenominator ==
    RecordGiven =>
        LET r == LastRec
        IN  /\ r.total_starts = PyInt(r.starts_2025.n + r.starts_2024.n)
            /\ r.total_wins = PyInt(r.wins_2025.n + r.wins_2024.n)
            /\ RatioOrZero(r.win_pct_2025, r.wins_2025.n, r.starts_2025.n, 4)
            /\ RatioOrZero(r.place_pct_2025, r.places_2025.n, r.starts_2025.n, 4)
            /\ RatioOrZero(r.win_pct_2024, r.wins_2024.n, r.starts_2024.n, 4)
            /\ RatioOrZero(r.place_pct_2024, r.places_2024.n, r.starts_2024.n, 4)
            /\ RatioOrZero(r.career_win_pct, r.total_wins.n, r.total_starts.n, 4)
            /\ RatioOrZero(r.career_roi_approx, r.prize_2025.n + r.prize_2024.n,
                           r.total_starts.n, 2)

\* a record with starts in 2025 and none in 2024 has the ratio for 2025 and 0
\* for 2024; one without starts in either year has 0 for the career ratios
C18_Witness ==
    /\ RecordGiven
    /\ \/ /\ LastRec.starts_2025 = PyInt(2) /\ LastRec.starts_2024 = PyInt(0)
          /\ LastRec.win_pct_2025 = PyFloat(5, 1) /\ LastRec.win_pct_2024 = PyInt(0)
          /\ LastRec.career_roi_approx = PyFloat(450, 0)
       \/ /\ LastRec.total_starts = PyInt(0)
          /\ LastRec.career_win_pct = PyInt(0) /\ LastRec.career_roi_approx = PyInt(0)

\* the line of a block that parse_box_ml is called on ('' when it has none)
WagerOf(blk) ==
    LET ns == {n \in 1..Len(blk) : re_search(PAT_BML, blk[n]).ok}
    IN  IF ns = {} THEN "" ELSE blk[CHOOSE n \in ns : \A q \in ns : n <= q]

\* C19: for a wagering line that matches the layout, ml_odds is the odds
\* integer and the odds decimal joined by a decimal point, and box_nr is the
\* integer written by the primary box digits followed by the extra fragment
\* when there is one (a fragment of "0" included), else by the primary digits
\* alone.
C19_OddsAndBoxFromWagerLine ==
    RecordGiven =>
        LET line == WagerOf(blocks[b - 1])
            m == re_search(PAT_BOX_ML, line)
            frag == group(line, m, 4)
        IN  m.ok =>
              /\ LastRec.ml_odds.k = "float" /\ LastRec.ml_odds.e <= 1
              /\ Scaled(LastRec.ml_odds, 1) = 10 * int(group(line, m, 1)) + int(group(line, m, 3))
              /\ LastRec.box_nr =
                     PyInt(IF frag # "" THEN int(group(line, m, 2)) * Pow10(Len(frag)) + int(frag)
                           ELSE int(group(line, m, 2)))

\* the line ": 12 5 ,5 0" gave ml_odds 12.5 and box_nr 50
C19_Witness ==
    /\ RecordGiven /\ WagerOf(blocks[b - 1]) = "B M o L x : : 12 5 ,5 0"
    /\ LastRec.ml_odds = PyFloat(125, 1) /\ LastRec.box_nr = PyInt(50)

\* the block has no wagering line, or its wagering line is not of the layout
NoWager(blk) == ~re_search(PAT_BOX_ML, WagerOf(blk)).ok

\* neither a value nor 0: the empty string or None
IsUnset(x) == x = PyStr("") \/ x = PyNone

\* C20 as stated: when the block has no wagering line of the layout, the
\* record's ml_odds, box_nr and jockey are all unset.
C20_AsClaimed_NoWagerLeavesJockeyUnset ==
    (RecordGiven /\ NoWager(blocks[b - 1])) =>
        IsUnset(LastRec.ml_odds) /\ IsUnset(LastRec.box_nr) /\ IsUnset(LastRec.jockey)

\* C20: when the block has no wagering line of the layout, the record's
\* ml_odds and box_nr are both None; the jockey does not come from the
\* wagering line: it is a string, empty exactly when the last today-dated
\* entry (if any) yields no jockey and the first kept prior race (if any)
\* yields none either.  None of the three is 0.
C20_NoWagerLeavesOddsAndBoxNone ==
    RecordGiven =>
        /\ NoWager(blocks[b - 1]) => (LastRec.ml_odds = PyNone /\ LastRec.box_nr = PyNone)
        /\ LastRec.jockey.k = "str"
        /\ (LastRec.jockey = PyStr(""))
               <=> /\ \/ TodayJockeys(blocks[b - 1]) = <<>>
                      \/ TodayJockeys(blocks[b - 1])[Len(TodayJockeys(blocks[b - 1]))] = ""
                   /\ LastRec.r1_jockey = PyStr("")

\* a block whose wagering line lacks the box digits gave a record without
\* odds and box, and with the jockey of its prior race
C20_Witness ==
    /\ RecordGiven /\ WagerOf(blocks[b - 1]) # "" /\ NoWager(blocks[b - 1])
    /\ LastRec.ml_odds = PyNone /\ LastRec.box_nr = PyNone
    /\ LastRec.jockey = PyStr("Max Mu")

\* the records of the first n pages, each page parsed as a document of its own
RECURSIVE PagesAlone(_, _, _)
PagesAlone(ps, n, date) ==
    IF n = 0 THEN <<>>
    ELSE PagesAlone(ps, n - 1, date) \o DocRecords(<<ps[n]>>, date).recs

\* C21: what a page contributes depends on its lines and the meeting date
\* alone: between two pages the collected records are, page by page and in
\* page order, the records each page gives when it is parsed as a document
\* of its own, and the returned list is that for all pages.  So a page that
\* occurs twice, or before or after other pages, gives the same records.
C21_PageRecordsFromPageAlone ==
    /\ pc = "page" =>
          all_starters = PagesAlone(pages, Min(pg - 1, Len(pages)), race_date)
    /\ pc = "done" => result = PagesAlone(pages, Len(pages), race_date)

\* a document holding the same record-giving page twice was parsed
C21_Witness ==
    /\ pc = "done" /\ Len(pages) = 2 /\ pages[1] = pages[2]
    /\ Len(result) = 2 * Len(DocRecords(<<pages[1]>>, race_date).recs)
    /\ result # <<>>

\* two different record-giving pages were parsed, in this order
C21_WitnessOrder ==
    /\ pc = "done" /\ Len(pages) = 2 /\ pages[1] # pages[2]
    /\ DocRecords(<<pages[1]>>, race_date).recs # <<>>
    /\ DocRecords(<<pages[2]>>, race_date).recs # <<>>

\* the keys FIELDNAMES lists
FieldSet == {FIELDNAMES[k] : k \in 1..Len(FIELDNAMES)}

\* no line among the three lines after the first matches the pedigree pattern
NoPedigree(blk) ==
    \A n \in 2..4 : n <= Len(blk) => ~re_match(PAT_PED, blk[n]).ok

\* the label, a colon and a value occur nowhere in the block
NoLabel(blk, label) == ~re_search(PAT_LABEL(label), Join(blk)).ok

\* the yearly-stats pattern has no occurrence for year y on the first line
NoYear(blk, y) == OccOf(blk, y) = {}

\* the fields read by the optional patterns other than the yearly statistics
\* are unset wherever their pattern did not match
OthersUnsetWhenNoMatch(blk, rec) ==
    /\ NoPedigree(blk) =>
          \A key \in {"age", "color", "gender", "sire", "dam"} : IsUnset(rec[key])
    /\ NoLabel(blk, "Trainer") => IsUnset(rec.trainer)
    /\ NoLabel(blk, "Besitzer") => IsUnset(rec.owner)
    /\ NoLabel(blk, "Züchter") => IsUnset(rec.breeder)
    /\ ~re_search(PAT_WEIGHT, Join(blk)).ok => IsUnset(rec.weight_kg)
    /\ NoWager(blk) => (IsUnset(rec.ml_odds) /\ IsUnset(rec.box_nr))
    /\ \A n \in 1..5 : n > Len(Qualifying(blk)) => Unset(rec, n)
    /\ FormMatches(blk, 2) = <<>> => IsUnset(rec.jockey)

\* C22 as stated: every record has exactly the keys of FIELDNAMES, and every
\* field whose pattern did not match is the empty string or None, the yearly
\* statistics included.
C22_AsClaimed_UnmatchedFieldsEmpty ==
    RecordGiven =>
        /\ DOMAIN LastRec = FieldSet
        /\ OthersUnsetWhenNoMatch(blocks[b - 1], LastRec)
        /\ \A y \in {2025, 2024} :
              NoYear(blocks[b - 1], y) =>
                  \A j \in 1..4 : IsUnset(YearFields(LastRec, y)[j])

\* C22: every record has exactly the keys of FIELDNAMES, which names no key
\* twice; a field whose pattern did not match is the empty string or None,
\* except that the yearly statistics of a reference year without an
\* occurrence are the integer 0, as are the two percentages of that year;
\* of the computed fields, venue_repeat is 0 without history and
\* trainer_jockey_combo is "|" without trainer and jockey.
C22_ExactKeysUnmatchedEmptyOrZero ==
    RecordGiven =>
        /\ DOMAIN LastRec = FieldSet
        /\ Cardinality(FieldSet) = Len(FIELDNAMES)
        /\ OthersUnsetWhenNoMatch(blocks[b - 1], LastRec)
        /\ \A y \in {2025, 2024} :
              NoYear(blocks[b - 1], y) =>
                  \A j \in 1..4 : YearFields(LastRec, y)[j] = PyInt(0)
        /\ NoYear(blocks[b - 1], 2025) =>
              (LastRec.win_pct_2025 = PyInt(0) /\ LastRec.place_pct_2025 = PyInt(0))
        /\ NoYear(blocks[b - 1], 2024) =>
              (LastRec.win_pct_2024 = PyInt(0) /\ LastRec.place_pct_2024 = PyInt(0))
        /\ FormMatches(blocks[b - 1], 2) = <<>> => LastRec.venue_repeat = PyInt(0)
        /\ (NoLabel(blocks[b - 1], "Trainer") /\ FormMatches(blocks[b - 1], 2) = <<>>) =>
              LastRec.trainer_jockey_combo = PyStr("|")

\* a record of a block on which no optional pattern matched but the
\* statistics of 2023, and a record of a block with pedigree and history
C22_Witness ==
    /\ RecordGiven /\ DOMAIN LastRec = FieldSet
    /\ NoPedigree(blocks[b - 1]) /\ NoLabel(blocks[b - 1], "Besitzer")
    /\ NoWager(blocks[b - 1]) /\ FormMatches(blocks[b - 1], 2) = <<>>
    /\ NoYear(blocks[b - 1], 2024) /\ LastRec.starts_2024 = PyInt(0)
    /\ LastRec.age = PyStr("") /\ LastRec.weight_kg = PyNone

PED_KEYS == {"age", "color", "gender", "sire", "dam"}

\* the lines among the three after the first that match the pedigree pattern
PedMatches(blk) == {n \in 2..4 : n <= Len(blk) /\ re_match(PAT_PED, blk[n]).ok}

\* C23 as stated: the five pedigree fields are all populated or all empty,
\* and they are read from the first of the three lines after the block's
\* first line that matches the full pedigree pattern, also when an earlier
\* one of those lines begins with "<age>j." without matching it; they are
\* empty only when none of those lines matches.
C23_AsClaimed_PedigreeFromFirstFullMatch ==
    RecordGiven =>
        LET ns == PedMatches(blocks[b - 1])
        IN  /\ \/ \A key \in PED_KEYS : LastRec[key] = PyStr("")
               \/ \A key \in PED_KEYS : LastRec[key] # PyStr("")
            /\ IF ns = {} THEN \A key \in PED_KEYS : LastRec[key] = PyStr("")
               ELSE \A key \in PED_KEYS :
                        LastRec[key] =
                            Pedigree(blocks[b - 1][CHOOSE n \in ns : \A q \in ns : n <= q])[key]

\* a date-like token: \d{2}\.\d{2}
PAT_DATELIKE == Cat(<<Rep(D, 2, 2), Lit("."), Rep(D, 2, 2)>>)

\* the text up to the first date-like token, all of it when there is none
CutAtDate(x) ==
    LET d == re_search(PAT_DATELIKE, x)
    IN  IF d.ok THEN SubSeq(x, 1, d.b - 1) ELSE x

\* what follows the odds and box fields on the wagering line of a block, up
\* to the next date-like token or the line end, as tokens
WagerTrail(blk) ==
    LET line == WagerOf(blk)
        m == re_search(PAT_BOX_ML, line)
    IN  IF m.ok THEN split(CutAtDate(SubSeq(line, m.e, Len(line)))) ELSE <<>>

\* Layout B: a name trails the odds and box fields
LayoutB(blk) == WagerTrail(blk) # <<>>

\* the tokens joined by single blanks
RECURSIVE Words(_)
Words(tokens) ==
    IF tokens = <<>> THEN ""
    ELSE IF Len(tokens) = 1 THEN tokens[1] ELSE tokens[1] \o " " \o Words(Tail(tokens))

TodayWords(blk) ==
    LET t == SelectSeq(FormMatches(blk, 2), IsToday)
    IN  IF t = <<>> THEN <<>> ELSE split(group(t[Len(t)].line, t[Len(t)].fm, 8))

C25_KnownIdsNotFetchedAgain ==
    /\ Elems(fetched) \cap done_ids = {}
    /\ Cardinality(Elems(fetched)) = Len(fetched)

\* a run whose checkpoint named two of its ids ended after it had requested
\* every other id
C25_Witness ==
    /\ rpc = "saved" /\ done_ids = {2, 3}
    /\ Len(race_ids) = MaxId /\ Len(fetched) = MaxId - 2
    /\ Elems(fetched) = Elems(race_ids) \ done_ids

C27_CheckpointsOnlyGrow ==
    prog = "run" =>
        \A k \in 1..Len(written) :
            /\ done_ids \subseteq written[k]
            /\ k > 1 => written[k - 1] \subseteq written[k]

\* a run that loaded two ids wrote its periodic checkpoint after the 200th
\* race and, interrupted two races later, a larger final one
C27_Witness ==
    /\ prog = "run" /\ rpc = "saved" /\ done_ids = {2, 3}
    /\ Len(written) = 2 /\ idx = CP_EVERY + 2 /\ idx <= Len(todo)
    /\ Cardinality(written[1]) = CP_EVERY + 2
    /\ written[1] # written[2] /\ written[2] = cp_file

(***************************************************************************)
(* Properties of the calendar scan.                                        *)
(***************************************************************************)
\* the days whose calendar page was requested so far are the consecutive
\* days that begin with from_date, none after to_date; a scan that came to
\* its end has requested every day of the range
DaysInOrder ==
    /\ \A k \in 1..Len(cal_log) :
          /\ cal_log[k] = strptime(from_date).day + (k - 1)
          /\ cal_log[k] <= end_day
    /\ spc = "collected" =>
          Len(cal_log) = Max(0, end_day - strptime(from_date).day + 1)

\* the scan is over: the id list is built, or an exception left run (a text
\* that is no date, a day added to 9999-12-31)
ScanOver == spc \in {"collected", "raised"}

\* C28: the calendar scan of run ends for every from_date and to_date, and
\* on its way it requests the calendar page of each day from from_date
\* through to_date once, in ascending order, going on to the next day also
\* after a calendar page or a meeting page that could not be fetched and
\* after a day without German meeting.
C28_ScanEndsDaysAscending == []DaysInOrder /\ <>ScanOver

\* a scan over three days came to its end after a day whose calendar page
\* was not fetched, a day without meeting and a day with a meeting page
\* that was not fetched
C28_Witness ==
    /\ spc = "collected" /\ Len(cal_log) = 3 /\ scanned = 2
    /\ \E x, y, z \in 1..3 :
          /\ CalendarPage(calendar, cal_log[x]) = Unreachable
          /\ CalendarPage(calendar, cal_log[y]) = [ok |-> TRUE, meetings |-> <<>>]
          /\ CalendarPage(calendar, cal_log[z]).ok
          /\ CalendarPage(calendar, cal_log[z]).meetings # <<>>
          /\ ~CalendarPage(calendar, cal_log[z]).meetings[1].ok
    /\ Len(race_ids) = 2

\* a scan through 9999-12-31 requested that day and ended with the
\* OverflowError of the day added to it
C28_WitnessLastDay ==
    /\ spc = "raised" /\ cal_log = <<MAX_ORDINAL - 1, MAX_ORDINAL>>

(***************************************************************************)
(* Properties of the jockey and the scan for form entries.                 *)
(***************************************************************************)
\* the jockeys of the entries of a block that are kept as history
KeptJockeys(blk) ==
    LET q == Qualifying(blk)
    IN  [n \in 1..Min(FORM_LIMIT, Len(q)) |-> SlotOf(q, n).jockey]

\* C29 as stated: a block without today-dated entry that has a kept history
\* entry with a jockey gives a record whose jockey is r1_jockey and whose
\* jockey_change is 0; jockey_change is 1 only when the block has a
\* today-dated entry.
C29_AsClaimed_AnyHistoryJockeyGivesZero ==
    RecordGiven =>
        LET kj == KeptJockeys(blocks[b - 1])
            tj == TodayJockeys(blocks[b - 1])
        IN  /\ (tj = <<>> /\ \E n \in 1..Len(kj) : kj[n] # PyStr(""))
                  => /\ LastRec.jockey = LastRec.r1_jockey
                     /\ LastRec.jockey_change = PyInt(0)
            /\ LastRec.jockey_change = PyInt(1) => tj # <<>>

\* C29: a block without today-dated entry whose first kept history entry has
\* a jockey gives a record whose jockey is r1_jockey and whose jockey_change
\* is 0; without today-dated entry the jockey is r1_jockey whatever the
\* history holds; jockey_change is 1 only when the block has a today-dated
\* entry.
C29_FirstHistoryJockeyGivesZero ==
    RecordGiven =>
        LET kj == KeptJockeys(blocks[b - 1])
            tj == TodayJockeys(blocks[b - 1])
        IN  /\ (tj = <<>> /\ kj # <<>>) => LastRec.jockey = LastRec.r1_jockey
            /\ (tj = <<>> /\ kj # <<>> /\ kj[1] # PyStr(""))
                  => LastRec.jockey_change = PyInt(0)
            /\ LastRec.jockey_change = PyInt(1) => tj # <<>>

\* a block without today-dated entry and with two prior races ridden by
\* different jockeys gave a record with the first one's jockey and no change
C29_Witness ==
    /\ RecordGiven /\ TodayJockeys(blocks[b - 1]) = <<>>
    /\ Len(KeptJockeys(blocks[b - 1])) >= 2
    /\ KeptJockeys(blocks[b - 1])[1] # PyStr("")
    /\ LastToken(KeptJockeys(blocks[b - 1])[1].s)
           # LastToken(KeptJockeys(blocks[b - 1])[2].s)
    /\ LastRec.jockey = LastRec.r1_jockey
    /\ LastRec.jockey_change = PyInt(0)

\* the places, among the form entries of a block after its first line, of the
\* entries dated today
TodayPlaces(blk) ==
    {k \in 1..Len(FormMatches(blk, 2)) : IsToday(FormMatches(blk, 2)[k])}

\* the jockey recovered from the k-th form entry of a block
JockeyAt(blk, k) ==
    jockey_from_rest(group(FormMatches(blk, 2)[k].line, FormMatches(blk, 2)[k].fm, 8))

\* the last of a set of places
LastPlace(ks) == CHOOSE k \in ks : \A j \in ks : j <= k

\* the number of entries not dated today ahead of place k
KeptAhead(blk, k) == Len(SelectSeq(SubSeq(FormMatches(blk, 2), 1, k - 1), NotToday))

====
